---- MODULE Spec2Model ----
(***************************************************************************)
(* A model of the snooker game's physics core:                             *)
(*   - the entity store id_vector (id_vector.hpp), and the older copy of   *)
(*     it that simulation.hpp still carries (add_collider/remove_collider),*)
(*   - the narrow-phase collision_test of simulation.cpp,                  *)
(*   - the ray casts of collision.cpp.                                     *)
(*                                                                         *)
(* Numbers.  The code computes in IEEE floats.  The model computes in      *)
(* exact rationals and draws its inputs from grids on which every          *)
(* operation the code performs (sums, products, quotients, square roots)   *)
(* is exact, so the model's value is the value the float code computes     *)
(* whenever the float code's own operations are exact on these inputs.     *)
(***************************************************************************)
EXTENDS Integers, Sequences, FiniteSets, TLC

(***************************************************************************)
(* Bounds of the model.                                                    *)
(***************************************************************************)
\* Number of insert calls explored on a store (caps d_next).
MaxInserts == 3
\* Element values stored are 0..MaxVal.
MaxVal == 1
\* Collider positions have integer coordinates in -MaxCoord..MaxCoord.
MaxCoord == 4
\* Circle radii are the integers 0..MaxRadius.
MaxRadius == 3
\* Ray origins have integer coordinates in -MaxStart..MaxStart.
MaxStart == 3
\* std::exp is summed up to the term of this order.
ExpTerms == 8
\* Number of calls of step explored on a table.
MaxSteps == 1
\* Number of frames of the game explored.
MaxFrames == 3

VARIABLES
    \* ---- id_vector<T> of id_vector.hpp
    d_data,          \* std::vector<T>: the packed elements
    d_data_id,       \* std::vector<size_t>: the id of the element in each slot
    d_id_to_index,   \* unordered_map id -> index (0-based, as in the code)
    d_next,          \* the next id to issue
    terminated,      \* the process has ended: std::terminate(), or a crash
    ub,              \* an out-of-bounds vector access has been executed
    issued,          \* history: the ids insert returned, in call order
    erased,          \* history: the ids erase removed, in call order
    shadow,          \* history: id -> the value inserted / last written via get
    last_call,       \* history: the last call, with the store as it was before
    \* ---- id_vector<T> of simulation.hpp (add_collider / remove_collider)
    sim_data,
    sim_data_id,
    sim_id_to_index,
    sim_next,
    sim_terminated,  \* std::terminate() was reached
    sim_ub,          \* an out-of-bounds vector access has been executed
    sim_removed,     \* history: ids passed to a remove_collider that returned
    sim_last,        \* history: the last call
    \* ---- one call of collision_test(a, b) (simulation.cpp)
    ct_a,            \* the collider passed as a
    ct_b,            \* the collider passed as b
    ct_res,          \* pending, or what the call produced
    \* ---- one call of ray_cast(ray, shape) (collision.cpp)
    ray_r,           \* the ray
    ray_target,      \* the circle, line or box it is cast at
    ray_res,         \* pending, or what the call returned
    ray_div0,        \* history: the call has divided by a cross product of 0
    \* ---- simulation::step(frame_dt) on the colliders held in d_data
    st_pc,           \* "idle" between calls, else the phase about to run
    st_dt,           \* dt: the length of a substep
    st_i,            \* i: the substeps completed in this call
    st_contacts,     \* contacts: the list phase 2 built for this substep
    st_nan,          \* fix_positions has divided by zero
    st_ended,        \* "no", or how step ended the process
    st_steps,        \* history: the number of calls of step, up to MaxSteps
    st_begun,        \* history: d_data as it was when the call began
    st_phases,       \* history: the phases run in this call, in order
    st_pulls,        \* history: the pulls phase 2 applied in this substep
    st_touched,      \* history: the pairs in contact so far in this call
    \* ---- scene_game (game.m.cpp): the table and the frame loop
    cue_ball,        \* t.cue_ball.id
    object_balls,    \* t.object_balls: records of id and is_pocketed
    pockets,         \* t.pockets: ids
    border_boxes,    \* t.border_boxes: ids
    accumulator,     \* double accumulator
    cue_ball_coll,   \* the slot of d_data the reference cue_ball_coll names
    g_pc,            \* where the frame is
    g_since_get,     \* the calls made on the simulation since cue_ball_coll
                     \* was taken: "step", "remove"
    g_stale_uses,    \* history: the calls cue_ball_coll was used across
    g_removed,       \* history: the ids the game has removed, in order
    g_elapsed,       \* history: the sum of the frame times
    g_calls,         \* history: the number of calls of sim.step() returned
    g_frames,        \* history: the number of frames begun
    g_k              \* the position of the removal loop in object_balls

store_vars == <<d_data, d_data_id, d_id_to_index, d_next, terminated, ub,
                issued, erased, shadow, last_call>>
sim_vars == <<sim_data, sim_data_id, sim_id_to_index, sim_next,
              sim_terminated, sim_ub, sim_removed, sim_last>>
ct_vars == <<ct_a, ct_b, ct_res>>
ray_vars == <<ray_r, ray_target, ray_res, ray_div0>>
step_vars == <<st_pc, st_dt, st_i, st_contacts, st_nan, st_ended, st_steps,
               st_begun, st_phases, st_pulls, st_touched>>
game_vars == <<cue_ball, object_balls, pockets, border_boxes, accumulator,
               cue_ball_coll, g_pc, g_since_get, g_stale_uses, g_removed,
               g_elapsed, g_calls, g_frames, g_k>>
vars == <<store_vars, sim_vars, ct_vars, ray_vars, step_vars, game_vars>>

\* What the operations of one component leave alone.
other_than_store == <<sim_vars, ct_vars, ray_vars, step_vars, game_vars>>
other_than_sim == <<store_vars, ct_vars, ray_vars, step_vars, game_vars>>
other_than_ct == <<store_vars, sim_vars, ray_vars, step_vars, game_vars>>
other_than_ray == <<store_vars, sim_vars, ct_vars, step_vars, game_vars>>
\* step works on d_data in place and on its own variables.
other_than_step == <<d_data_id, d_id_to_index, d_next, ub, issued, erased,
                     shadow, last_call, sim_vars, ct_vars, ray_vars,
                     game_vars>>
\* The game works on the store, on step and on its own variables.
other_than_game == <<sim_vars, ct_vars, ray_vars>>

Vals == 0..MaxVal
\* Ids a caller can present: every id insert can issue, and one it never does.
Ids == 0..MaxInserts

(***************************************************************************)
(* Standard-library pieces used by both stores.                            *)
(***************************************************************************)
EmptyMap == [k \in {} |-> 0]

\* unordered_map::contains
map_contains(m, k) == k \in DOMAIN m

\* unordered_map::operator[] as an rvalue: a missing key is inserted with a
\* value-initialised (0) mapped value, which is then returned.
map_index(m, k) == IF k \in DOMAIN m THEN m[k] ELSE 0

\* m[k] = v
map_set(m, k, v) == [x \in DOMAIN m \cup {k} |-> IF x = k THEN v ELSE m[x]]

\* A faulty erase(key): the key is left in the map.
map_erase_forgotten(m, k) == m

\* unordered_map::erase(key)
map_erase(m, k) == [x \in DOMAIN m \ {k} |-> m[x]]

\* A faulty erase: the element is moved to the back by shifting every later
\* element one slot down (an order-preserving erase), i is 0-based.
shift_to_back(s, i) ==
    [k \in 1..Len(s) |-> IF k < i + 1 THEN s[k]
                         ELSE IF k < Len(s) THEN s[k + 1]
                         ELSE s[i + 1]]

\* std::swap(v[i], v.back()) on a vector held as a sequence; i is 0-based.
swap_with_back(s, i) ==
    [s EXCEPT ![i + 1] = s[Len(s)], ![Len(s)] = s[i + 1]]

\* vector::pop_back
pop_back(s) == SubSeq(s, 1, Len(s) - 1)

\* vector::emplace_back
emplace_back(s, x) == Append(s, x)

(***************************************************************************)
(* id_vector.hpp                                                           *)
(***************************************************************************)
\* The four fields, as one value (for the history variable last_call).
Store == [data |-> d_data, ids |-> d_data_id, map |-> d_id_to_index,
          next |-> d_next]

is_valid(id) == map_contains(d_id_to_index, id)

\* get(id), for an id that passed the assertion: the element it resolves to.
get(id) == d_data[map_index(d_id_to_index, id) + 1]

\* A faulty assert_that: the check is compiled out, as <cassert>'s is by
\* NDEBUG.
assert_that_compiled_out(condition) == TRUE

\* assert_that(condition): TRUE when the call returns, FALSE when it
\* prints and calls std::terminate().
assert_that(condition) == condition

\* A faulty id: the element count.
insert_id_from_size == Len(d_data)

\* The id insert hands out: const auto id = d_next++.
\* (d_next is a 64-bit size_t; MaxInserts keeps it far from wrapping.)
insert_id == d_next

\* insert(c)
Insert(c) ==
    /\ ~terminated
    /\ d_next < MaxInserts
    /\ LET id == insert_id
           index == Len(d_data)
       IN /\ d_next' = d_next + 1
          /\ d_id_to_index' = map_set(d_id_to_index, id, index)
          /\ d_data' = emplace_back(d_data, c)
          /\ d_data_id' = emplace_back(d_data_id, id)
          /\ issued' = Append(issued, id)
          /\ shadow' = [x \in DOMAIN shadow \cup {id} |->
                           IF x = id THEN c ELSE shadow[x]]
          /\ last_call' = [op |-> "insert", id |-> id, pre |-> Store]
    /\ UNCHANGED <<terminated, ub, erased>>
    /\ UNCHANGED other_than_store

\* Whether d_data[d_id_to_index[id]] and d_data.back() name elements of
\* the vector.  Otherwise the access is undefined behaviour.
index_in_bounds(id) == map_index(d_id_to_index, id) < Len(d_data)

\* A faulty erase: d_data is popped without the swap.
erase_body_noswap(id) ==
    LET index == map_index(d_id_to_index, id)
        ids1 == swap_with_back(d_data_id, index)
        map1 == map_set(d_id_to_index, ids1[index + 1], index)
        map2 == map_erase(map1, id)
    IN <<pop_back(d_data), pop_back(ids1), map2>>

\* The body of erase(id) after its assertion (all accesses in bounds):
\* the new <<d_data, d_data_id, d_id_to_index>>.
erase_body(id) ==
    LET index == map_index(d_id_to_index, id)
        data1 == swap_with_back(d_data, index)
        ids1 == swap_with_back(d_data_id, index)
        map1 == map_set(d_id_to_index, ids1[index + 1], index)
        map2 == map_erase(map1, id)
    IN <<pop_back(data1), pop_back(ids1), map2>>

\* The step taken when an access is out of bounds: undefined behaviour.
\* The build may crash there or carry on with nothing visibly changed.
StoreUB ==
    /\ ub' = TRUE
    /\ terminated' \in BOOLEAN
    /\ UNCHANGED <<d_data, d_data_id, d_id_to_index, d_next,
                   issued, erased, shadow>>

\* The step taken when assert_that fails: the message is printed and
\* std::terminate() ends the process.
StoreTerminate ==
    /\ terminated' = TRUE
    /\ UNCHANGED <<d_data, d_data_id, d_id_to_index, d_next, ub,
                   issued, erased, shadow>>

\* erase(id), called with any id: what it does to the store
EraseCall(id) ==
    /\ ~terminated
    /\ last_call' = [op |-> "erase", id |-> id, pre |-> Store]
    /\ IF ~assert_that(is_valid(id)) THEN StoreTerminate
       ELSE IF ~index_in_bounds(id) THEN StoreUB
       ELSE /\ d_data' = erase_body(id)[1]
            /\ d_data_id' = erase_body(id)[2]
            /\ d_id_to_index' = erase_body(id)[3]
            /\ erased' = Append(erased, id)
            /\ shadow' = [x \in DOMAIN shadow \ {id} |-> shadow[x]]
            /\ UNCHANGED <<d_next, terminated, ub, issued>>

Erase(id) ==
    /\ EraseCall(id)
    /\ UNCHANGED other_than_store

\* get(id) const, called with any id: a read
Get(id) ==
    /\ ~terminated
    /\ last_call' = [op |-> "get", id |-> id, pre |-> Store]
    /\ IF ~assert_that(is_valid(id)) THEN StoreTerminate
       ELSE IF ~index_in_bounds(id) THEN StoreUB
       ELSE UNCHANGED <<d_data, d_data_id, d_id_to_index, d_next,
                        terminated, ub, issued, erased, shadow>>
    /\ UNCHANGED other_than_store

\* get(id) = v: a write through the reference the non-const get returns
\* (d_id_to_index[id] inserts id when it is missing)
Modify(id, v) ==
    /\ ~terminated
    /\ last_call' = [op |-> "modify", id |-> id, pre |-> Store]
    /\ IF ~assert_that(is_valid(id)) THEN StoreTerminate
       ELSE IF ~index_in_bounds(id) THEN StoreUB
       ELSE /\ d_data' = [d_data EXCEPT
                             ![map_index(d_id_to_index, id) + 1] = v]
            /\ d_id_to_index' = map_set(d_id_to_index, id,
                                        map_index(d_id_to_index, id))
            /\ shadow' = [x \in DOMAIN shadow \cup {id} |->
                             IF x = id THEN v ELSE shadow[x]]
            /\ UNCHANGED <<d_data_id, d_next, terminated, ub,
                           issued, erased>>
    /\ UNCHANGED other_than_store

(***************************************************************************)
(* The id_vector that simulation.hpp defines (add_collider,                *)
(* remove_collider, get).                                                  *)
(***************************************************************************)
SimStore == [data |-> sim_data, ids |-> sim_data_id,
             map |-> sim_id_to_index, next |-> sim_next]

sim_is_valid(id) == map_contains(sim_id_to_index, id)

\* Whether d_data[d_id_to_index[id]] and d_data.back() name elements.
sim_index_in_bounds(id) == map_index(sim_id_to_index, id) < Len(sim_data)

\* add_collider(c)
AddCollider(c) ==
    /\ ~sim_terminated
    /\ sim_next < MaxInserts
    /\ LET id == sim_next
           index == Len(sim_data)
       IN /\ sim_next' = sim_next + 1
          /\ sim_id_to_index' = map_set(sim_id_to_index, id, index)
          /\ sim_data' = emplace_back(sim_data, c)
          /\ sim_data_id' = emplace_back(sim_data_id, id)
          /\ sim_last' = [op |-> "add", id |-> id, pre |-> SimStore,
                          removed |-> sim_removed]
    /\ UNCHANGED <<sim_terminated, sim_ub, sim_removed>>
    /\ UNCHANGED other_than_sim

\* The step taken when assert_that fails.
SimTerminate ==
    /\ sim_terminated' = TRUE
    /\ UNCHANGED <<sim_data, sim_data_id, sim_id_to_index, sim_next, sim_ub,
                   sim_removed>>

\* The step taken when a read of d_data[index] is out of bounds: undefined
\* behaviour.  The build may crash, or read whatever lies there and go on.
SimReadUB ==
    /\ sim_ub' = TRUE
    /\ sim_terminated' \in BOOLEAN
    /\ UNCHANGED <<sim_data, sim_data_id, sim_id_to_index, sim_next,
                   sim_removed>>

\* The step taken when remove_collider swaps with a slot past the end (or
\* takes back() of an empty vector): undefined behaviour.  The build may
\* crash, leave the store as it was, or (the slot lying within the vector's
\* capacity) swap the last element out past the end, map its id to that
\* slot and pop.
SimRemoveUB(id) ==
    /\ sim_ub' = TRUE
    /\ \/ /\ sim_terminated' \in BOOLEAN
          /\ UNCHANGED <<sim_data, sim_data_id, sim_id_to_index, sim_next,
                         sim_removed>>
       \/ /\ Len(sim_data) >= 1
          /\ sim_data' = pop_back(sim_data)
          /\ sim_data_id' = pop_back(sim_data_id)
          /\ sim_id_to_index' =
                map_set(sim_id_to_index, sim_data_id[Len(sim_data_id)],
                        map_index(sim_id_to_index, id))
          /\ sim_removed' = sim_removed \cup {id}
          /\ UNCHANGED <<sim_next, sim_terminated>>

\* The body of remove_collider(id) after its assertion (accesses in
\* bounds): the new <<d_data, d_data_id, d_id_to_index>>.  The id is not
\* taken out of d_id_to_index.
remove_collider_body(id) ==
    LET index == map_index(sim_id_to_index, id)
        data1 == swap_with_back(sim_data, index)
        ids1 == swap_with_back(sim_data_id, index)
        map1 == map_set(sim_id_to_index, ids1[index + 1], index)
    IN <<pop_back(data1), pop_back(ids1), map1>>

\* remove_collider(id), called with any id
RemoveCollider(id) ==
    /\ ~sim_terminated
    /\ sim_last' = [op |-> "remove", id |-> id, pre |-> SimStore,
                    removed |-> sim_removed]
    /\ IF ~assert_that(sim_is_valid(id)) THEN SimTerminate
       ELSE IF ~sim_index_in_bounds(id) THEN SimRemoveUB(id)
       ELSE /\ sim_data' = remove_collider_body(id)[1]
            /\ sim_data_id' = remove_collider_body(id)[2]
            /\ sim_id_to_index' = remove_collider_body(id)[3]
            /\ sim_removed' = sim_removed \cup {id}
            /\ UNCHANGED <<sim_next, sim_terminated, sim_ub>>
    /\ UNCHANGED other_than_sim

\* get(id), called with any id
SimGet(id) ==
    /\ ~sim_terminated
    /\ sim_last' = [op |-> "get", id |-> id, pre |-> SimStore,
                    removed |-> sim_removed]
    /\ IF ~assert_that(sim_is_valid(id)) THEN SimTerminate
       ELSE IF ~sim_index_in_bounds(id) THEN SimReadUB
       ELSE UNCHANGED <<sim_data, sim_data_id, sim_id_to_index, sim_next,
                        sim_terminated, sim_ub, sim_removed>>
    /\ UNCHANGED other_than_sim

(***************************************************************************)
(* Arithmetic standing for the code's float arithmetic.                    *)
(* A number is a fraction [n, d] in lowest terms with d > 0.  An operation *)
(* yields its exact result for as long as the integers it needs stay       *)
(* within Big; beyond that it rounds, as a float operation does, here to   *)
(* the nearest multiple of 1/Grid.  On the grids the single calls of       *)
(* collision_test and ray_cast are tried on, every operation is exact.     *)
(***************************************************************************)
\* F(e) and F(e1, e2): what LET v == e IN F(v) stands for, with the
\* arguments computed once, as a call by value computes them
With(F(_), e) == CHOOSE r \in {F(v) : v \in {e}} : TRUE
With2(F(_, _), e1, e2) ==
    CHOOSE r \in {F(v, w) : v \in {e1}, w \in {e2}} : TRUE

Abs(i) == IF i < 0 THEN -i ELSE i

\* Euclid's algorithm, two of its steps at a time
RECURSIVE GCD(_, _)
GCD(a, b) ==
    IF b = 0 THEN a
    ELSE With(LAMBDA r : IF r = 0 THEN b
                         ELSE With(LAMBDA q : GCD(r, q), b % r),
              a % b)

\* The fraction x / y in lowest terms, for y # 0
Rat(x, y) ==
    With2(LAMBDA n, d :
        With(LAMBDA g : [n |-> n \div g, d |-> d \div g],
             (IF d < 0 THEN -1 ELSE 1) * GCD(Abs(n), Abs(d))),
    x, y)

RI(i) == [n |-> i, d |-> 1]
R0 == RI(0)
R1 == RI(1)

\* The integers an exact operation may form: up to 2^20 in magnitude.
Big == 1024 * 1024
\* Rounded results are multiples of 1/Grid (about the 7 digits of a float).
Grid == 1000 * 1000

\* |x * y| <= Big, decided without forming the product
Fits(x, y) == x = 0 \/ y = 0 \/ Abs(x) <= Big \div Abs(y)

\* The digits b is taken by when multiplying modulo c: the largest of
\* 2^10, 2^5 and 2 with radix * c <= 2^30
Radix(c) ==
    IF c <= 1024 * 1024 THEN 1024
    ELSE IF c <= 32 * 1024 * 1024 THEN 32
    ELSE 2

\* <<q, r>> with a * b = q * c + r and 0 <= r < c, for 0 <= a < c,
\* b >= 0 and 0 < c <= 2^29, digit by digit of b: no intermediate exceeds
\* 2 * radix * c + q.
\* <<q + t \div c, t % c>>
Carry(q, t, c) == <<q + (t \div c), t % c>>

\* One more digit of b after the result h for the digits above it
MulQRDigit(h, a, digit, c, radix) ==
    Carry(radix * h[1], radix * h[2] + a * digit, c)

RECURSIVE MulQRDigits(_, _, _, _)
MulQRDigits(a, b, c, radix) ==
    IF b = 0 \/ a = 0 THEN <<0, 0>>
    ELSE With(LAMBDA h : MulQRDigit(h, a, b % radix, c, radix),
              MulQRDigits(a, b \div radix, c, radix))

\* The same for any a >= 0
MulQR(a, b, c) ==
    With(LAMBDA h : <<(a \div c) * b + h[1], h[2]>>,
         MulQRDigits(a % c, b, c, Radix(c)))

\* x * b / c rounded to the nearest integer, for c > 0
MulDiv(x, b, c) ==
    With(LAMBDA a :
    With(LAMBDA qr :
        (IF (a < 0) = (b < 0) THEN 1 ELSE -1)
            * (qr[1] + (IF 2 * qr[2] >= c THEN 1 ELSE 0)),
    MulQR(Abs(a), Abs(b), c)),
    x)

\* A number in units of 1/Grid, rounded to the nearest unit, and back.
ToGrid(a) ==
    IF Grid % a.d = 0 THEN a.n * (Grid \div a.d)
    ELSE MulDiv(a.n, Grid, a.d)
\* gcd(k, Grid), by the powers of 2 and of 5 that divide k: Grid = 2^6 * 5^6
GridGCD(k) ==
    2 ^ Cardinality({e \in 1..6 : k % (2 ^ e) = 0})
        * 5 ^ Cardinality({e \in 1..6 : k % (5 ^ e) = 0})
FromGrid(x) ==
    With(LAMBDA k :
    With(LAMBDA g : [n |-> k \div g, d |-> Grid \div g],
    GridGCD(k)),
    x)

\* x * y for 0 <= x, y <= Big, as three digits in base 1024 (the first
\* one unbounded), most significant first
WideDigits(hi, mid, lo) == <<hi + (mid \div 1024), mid % 1024, lo % 1024>>
WideSum(hi, mid, lo) == WideDigits(hi, mid + (lo \div 1024), lo)
WideMul(x, y) ==
    WideSum((x \div 1024) * (y \div 1024),
            (x \div 1024) * (y % 1024) + (x % 1024) * (y \div 1024),
            (x % 1024) * (y % 1024))

\* The sign of p - q for two such products
CmpWide(x, y) ==
    With2(LAMBDA p, q :
        IF p[1] # q[1] THEN (IF p[1] < q[1] THEN -1 ELSE 1)
        ELSE IF p[2] # q[2] THEN (IF p[2] < q[2] THEN -1 ELSE 1)
        ELSE IF p[3] # q[3] THEN (IF p[3] < q[3] THEN -1 ELSE 1)
        ELSE 0,
    x, y)

\* The sign of a/b - c/d for a, c >= 0 and 0 < b, d <= Big: by integer
\* parts, then by the cross products of the fractional parts.
CmpPos(a, b, c, d) ==
    IF a \div b # c \div d THEN (IF a \div b < c \div d THEN -1 ELSE 1)
    ELSE CmpWide(WideMul(a % b, d), WideMul(c % d, b))

\* The sign of a - b; always exact.
RCmp(x, y) ==
    With2(LAMBDA a, b :
        IF a = b THEN 0
        ELSE IF a.n >= 0 /\ b.n >= 0 THEN CmpPos(a.n, a.d, b.n, b.d)
        ELSE IF a.n < 0 /\ b.n < 0 THEN CmpPos(-b.n, b.d, -a.n, a.d)
        ELSE IF a.n < 0 THEN -1 ELSE 1,
    x, y)

RAdd(x, y) ==
    With2(LAMBDA a, b :
        IF a = R0 THEN b
        ELSE IF b = R0 THEN a
        ELSE IF Fits(a.n, b.d) /\ Fits(b.n, a.d) /\ Fits(a.d, b.d)
        THEN Rat(a.n * b.d + b.n * a.d, a.d * b.d)
        ELSE FromGrid(ToGrid(a) + ToGrid(b)),
    x, y)
RNeg(a) == [a EXCEPT !.n = -@]
RAbs(a) == [a EXCEPT !.n = Abs(@)]
RSub(a, b) == RAdd(a, RNeg(b))
RMul(x, y) ==
    With2(LAMBDA a, b :
        IF a = R0 \/ b = R0 THEN R0
        ELSE IF a = R1 THEN b
        ELSE IF b = R1 THEN a
        ELSE IF Fits(a.n, b.n) /\ Fits(a.d, b.d)
        THEN Rat(a.n * b.n, a.d * b.d)
        ELSE IF Grid % a.d = 0 \/ Grid % b.d # 0
             THEN FromGrid(MulDiv(ToGrid(a), b.n, b.d))
             ELSE FromGrid(MulDiv(ToGrid(b), a.n, a.d)),
    x, y)
\* x / y for y # 0
RDiv(x, y) ==
    With2(LAMBDA a, b :
        IF a = R0 THEN R0
        ELSE IF b = R1 THEN a
        ELSE IF Fits(a.n, b.d) /\ Fits(a.d, b.n)
        THEN Rat(a.n * b.d, a.d * b.n)
        ELSE FromGrid((IF b.n < 0 THEN -1 ELSE 1)
                         * MulDiv(ToGrid(a), b.d, Abs(b.n))),
    x, y)
RLt(a, b) == RCmp(a, b) < 0
RLe(a, b) == RCmp(a, b) <= 0
\* std::min(a, b) and std::max(a, b)
RMin(x, y) == With2(LAMBDA a, b : IF RLt(b, a) THEN b ELSE a, x, y)
RMax(x, y) == With2(LAMBDA a, b : IF RLt(a, b) THEN b ELSE a, x, y)
\* glm::clamp(x, lo, hi) = min(max(x, lo), hi)
RClamp(x, lo, hi) == RMin(RMax(x, lo), hi)

\* The largest x in 0..35 with (lo + x * unit)^2 <= i, given lo^2 <= i:
\* one digit of a square root in base 36 (46340^2 < 2^31 < 46341^2)
SqrtDigit(i, lo, unit) ==
    Cardinality({x \in 1..35 :
                    /\ lo + x * unit <= 46340
                    /\ (lo + x * unit) * (lo + x * unit) <= i})

\* floor(sqrt(i)) for 0 <= i < 2^31, digit by digit
SqrtPlace(i, x, unit) ==
    With(LAMBDA lo : lo + unit * SqrtDigit(i, lo, unit), x)
ISqrt(x) ==
    With(LAMBDA i : SqrtPlace(i, SqrtPlace(i, SqrtPlace(i, 0, 1296), 36), 1),
         x)
IsSquare(i) == i >= 0 /\ With(LAMBDA s : s * s = i, ISqrt(i))
RIsSquare(a) == IsSquare(a.n) /\ IsSquare(a.d)

\* The largest x in 0..31 with lo + x * unit in 0..999 and, for
\* e = lo + x * unit, e*e/2000 (rounded up) + s*e <= 500*r: one digit, in
\* base 32, of the last three decimals of floor(sqrt(Grid * (s*s + r))).
SqrtDigits(s, r, lo, unit) ==
    Cardinality({x \in 1..31 :
                    /\ lo + x * unit <= 999
                    /\ ((lo + x * unit) * (lo + x * unit) + 1999) \div 2000
                          + s * (lo + x * unit) <= 500 * r})

\* floor(sqrt(Grid * k)) for k >= 0: sqrt of k units, in units
SqrtPlaces(s, r, x, unit) ==
    With(LAMBDA lo : lo + unit * SqrtDigits(s, r, lo, unit), x)
GridSqrt(x) ==
    With(LAMBDA k :
    With(LAMBDA s :
    With(LAMBDA r : 1000 * s + SqrtPlaces(s, r, SqrtPlaces(s, r, 0, 32), 1),
    k - s * s),
    ISqrt(k)),
    x)

\* std::sqrt: exact when the root is a fraction, rounded otherwise
RSqrt(x) ==
    With(LAMBDA a : IF RIsSquare(a) THEN [n |-> ISqrt(a.n), d |-> ISqrt(a.d)]
                    ELSE FromGrid(GridSqrt(ToGrid(a))),
         x)

\* glm::vec2
V(x, y) == [x |-> x, y |-> y]
VI(i, j) == V(RI(i), RI(j))
VAdd(a, b) ==
    With2(LAMBDA u, v : V(RAdd(u.x, v.x), RAdd(u.y, v.y)), a, b)
VSub(a, b) ==
    With2(LAMBDA u, v : V(RSub(u.x, v.x), RSub(u.y, v.y)), a, b)
VNeg(a) == With(LAMBDA u : V(RNeg(u.x), RNeg(u.y)), a)
VScale(a, b) ==
    With2(LAMBDA u, k : V(RMul(u.x, k), RMul(u.y, k)), a, b)
VDivS(a, b) ==
    With2(LAMBDA u, k : V(RDiv(u.x, k), RDiv(u.y, k)), a, b)
VDot(a, b) ==
    With2(LAMBDA u, v : RAdd(RMul(u.x, v.x), RMul(u.y, v.y)), a, b)
\* glm::length: sqrt(dot(u, u)).  For a vector along an axis the float
\* result is the magnitude of its one component exactly (the root of a
\* rounded square rounds back), whatever the rounding of the square.
VLength(a) ==
    With(LAMBDA u : IF u.y = R0 THEN RAbs(u.x)
                    ELSE IF u.x = R0 THEN RAbs(u.y)
                    ELSE RSqrt(VDot(u, u)),
         a)
VClamp(a, b, c) ==
    With(LAMBDA u :
    With2(LAMBDA lo, hi :
        V(RClamp(u.x, lo.x, hi.x), RClamp(u.y, lo.y, hi.y)),
    b, c),
    a)

(***************************************************************************)
(* Colliders: position, body kind, shape (as simulation.cpp uses them).    *)
(***************************************************************************)
static_body == [kind |-> "static"]
attractor_body == [kind |-> "attractor"]
dynamic_body(vel, mass) == [kind |-> "dynamic", vel |-> vel, mass |-> mass]

circle_shape(radius) == [kind |-> "circle", radius |-> radius]
box_shape(width, height) ==
    [kind |-> "box", width |-> width, height |-> height]
line_shape(start, end) == [kind |-> "line", start |-> start, end |-> end]

collider(pos, body, shape) == [pos |-> pos, body |-> body, shape |-> shape]

\* std::holds_alternative<dynamic_body>(c.body)
is_dynamic(c) == c.body.kind = "dynamic"

(***************************************************************************)
(* Narrow phase (simulation.cpp).  A test yields no collision, a           *)
(* collision_info, or ends the process in assert_that(false).              *)
(***************************************************************************)
NoCollision == [kind |-> "none"]
CollisionInfo(normal, penetration) ==
    [kind |-> "hit", normal |-> normal, penetration |-> penetration]
Fatal == [kind |-> "terminate"]

\* 1e-6f
Eps6 == Rat(1, 1000000)

\* optional::transform(flip_normal)
flip_normal(col) ==
    With(LAMBDA info :
        IF info.kind = "hit"
        THEN CollisionInfo(VNeg(info.normal), info.penetration)
        ELSE info,
    col)

circle_circle_delta(pos_a, pos_b) == VSub(pos_b, pos_a)

\* A faulty circle-circle test: dist <= r, so touching circles collide.
collision_circle_circle_touching(pos_a, pos_b, shape_a, shape_b) ==
    With(LAMBDA delta :
    With(LAMBDA dist :
    With(LAMBDA r :
        IF RLe(dist, r)
        THEN CollisionInfo(IF RLt(Eps6, dist) THEN VDivS(delta, dist)
                           ELSE V(R1, R0),
                           RSub(r, dist))
        ELSE NoCollision,
    RAdd(shape_a.radius, shape_b.radius)),
    VLength(delta)),
    circle_circle_delta(pos_a, pos_b))

\* collision_circle_circle
collision_circle_circle(pos_a, pos_b, shape_a, shape_b) ==
    With(LAMBDA delta :
    With(LAMBDA dist :
    With(LAMBDA r :
        IF RLt(dist, r)
        THEN CollisionInfo(IF RLt(Eps6, dist) THEN VDivS(delta, dist)
                           ELSE V(R1, R0),
                           RSub(r, dist))
        ELSE NoCollision,
    RAdd(shape_a.radius, shape_b.radius)),
    VLength(delta)),
    circle_circle_delta(pos_a, pos_b))

\* P - pos_a, P the closest point of the box to the circle's centre
circle_box_delta(pos_a, pos_b, shape_b) ==
    With(LAMBDA half_extents :
    With(LAMBDA P : VSub(P, pos_a),
    VClamp(pos_a, VSub(pos_b, half_extents), VAdd(pos_b, half_extents))),
    VDivS(V(shape_b.width, shape_b.height), RI(2)))

\* A faulty circle-box test: a centre inside the box is no collision.
collision_circle_box_silent(pos_a, pos_b, shape_a, shape_b) ==
    With(LAMBDA delta :
    With(LAMBDA P :
    With(LAMBDA dist :
        IF RLt(dist, shape_a.radius) /\ pos_a # P
        THEN CollisionInfo(IF RLt(Eps6, dist) THEN VDivS(delta, dist)
                           ELSE V(R1, R0),
                           RSub(shape_a.radius, dist))
        ELSE NoCollision,
    VLength(delta)),
    VAdd(pos_a, delta)),
    circle_box_delta(pos_a, pos_b, shape_b))

\* collision_circle_box
collision_circle_box(pos_a, pos_b, shape_a, shape_b) ==
    With(LAMBDA delta :
    With(LAMBDA P :
    With(LAMBDA dist :
        IF RLt(dist, shape_a.radius)
        THEN IF pos_a # P
             THEN CollisionInfo(IF RLt(Eps6, dist) THEN VDivS(delta, dist)
                                ELSE V(R1, R0),
                                RSub(shape_a.radius, dist))
             ELSE Fatal
        ELSE NoCollision,
    VLength(delta)),
    VAdd(pos_a, delta)),
    circle_box_delta(pos_a, pos_b, shape_b))

\* closest - circle_pos, closest the point of the segment nearest the centre
\* The same for a segment from line_start to a different line_end
circle_segment_diff(circle_pos, line_start, line_end) ==
    With(LAMBDA line_vec :
    With(LAMBDA line_len_sq :
    With(LAMBDA t :
    With(LAMBDA closest : VSub(closest, circle_pos),
    VAdd(line_start, VScale(line_vec, t))),
    RClamp(RDiv(VDot(VSub(circle_pos, line_start), line_vec), line_len_sq),
           R0, R1)),
    VDot(line_vec, line_vec)),
    VSub(line_end, line_start))

circle_ends_diff(circle_pos, line_start, line_end) ==
    IF line_start = line_end
    THEN VSub(line_start, circle_pos)
    ELSE circle_segment_diff(circle_pos, line_start, line_end)

circle_line_diff(pos_a, pos_b, shape_b) ==
    circle_ends_diff(pos_a, VAdd(pos_b, shape_b.start),
                     VAdd(pos_b, shape_b.end))

collision_circle_line(pos_a, pos_b, shape_a, shape_b) ==
    With(LAMBDA circle_radius :
    With(LAMBDA diff :
    With(LAMBDA dist :
        IF RLe(circle_radius, dist)
        THEN NoCollision
        ELSE CollisionInfo(IF RLt(R0, dist) THEN VDivS(diff, dist)
                           ELSE V(R1, R0),
                           RSub(circle_radius, dist)),
    VLength(diff)),
    circle_line_diff(pos_a, pos_b, shape_b)),
    shape_a.radius)

collision_box_box(pos_a, pos_b, shape_a, shape_b) == Fatal

collision_box_line(pos_a, pos_b, shape_a, shape_b) == Fatal

collision_line_line(pos_a, pos_b, shape_a, shape_b) == Fatal

\* A faulty short circuit: attractors are let through.
neither_dynamic_both_static(a, b) ==
    a.body.kind = "static" /\ b.body.kind = "static"

\* A missing short circuit: every pair is tested.
neither_dynamic_skipped(a, b) == FALSE

\* The short circuit of collision_test: neither body is dynamic.
neither_dynamic(a, b) == ~is_dynamic(a) /\ ~is_dynamic(b)

\* collision_test(a, b)
collision_test(a, b) ==
    IF neither_dynamic(a, b) THEN NoCollision
    ELSE CASE a.shape.kind = "circle" /\ b.shape.kind = "circle" ->
                 collision_circle_circle(a.pos, b.pos, a.shape, b.shape)
           [] a.shape.kind = "circle" /\ b.shape.kind = "box" ->
                 collision_circle_box(a.pos, b.pos, a.shape, b.shape)
           [] a.shape.kind = "circle" /\ b.shape.kind = "line" ->
                 collision_circle_line(a.pos, b.pos, a.shape, b.shape)
           [] a.shape.kind = "box" /\ b.shape.kind = "circle" ->
                 flip_normal(collision_circle_box(b.pos, a.pos,
                                                  b.shape, a.shape))
           [] a.shape.kind = "box" /\ b.shape.kind = "box" ->
                 collision_box_box(a.pos, b.pos, a.shape, b.shape)
           [] a.shape.kind = "box" /\ b.shape.kind = "line" ->
                 collision_box_line(a.pos, b.pos, a.shape, b.shape)
           [] a.shape.kind = "line" /\ b.shape.kind = "circle" ->
                 flip_normal(collision_circle_line(b.pos, a.pos,
                                                   b.shape, a.shape))
           [] a.shape.kind = "line" /\ b.shape.kind = "box" ->
                 flip_normal(collision_box_line(b.pos, a.pos,
                                                b.shape, a.shape))
           [] a.shape.kind = "line" /\ b.shape.kind = "line" ->
                 collision_line_line(a.pos, b.pos, a.shape, b.shape)
           [] OTHER -> Fatal

\* The call collision_test(ct_a, ct_b).
Pending == [kind |-> "pending"]

CollisionTest ==
    /\ ct_res = Pending
    /\ ct_res' = collision_test(ct_a, ct_b)
    /\ UNCHANGED <<ct_a, ct_b>>
    /\ UNCHANGED other_than_ct

(***************************************************************************)
(* The colliders a collision_test is tried on.                             *)
(***************************************************************************)
Coord == -MaxCoord..MaxCoord
\* Positions of a: the origin and one point off both axes.
PosA == {VI(0, 0), VI(1, -1)}
PosB == {VI(i, j) : i \in Coord, j \in Coord}
Bodies == {static_body, attractor_body, dynamic_body(VI(0, 0), R1)}
\* Boxes have even sides, so that their half extents are integers.
Shapes ==
    {circle_shape(RI(r)) : r \in 0..MaxRadius}
    \cup {box_shape(RI(2), RI(2)), box_shape(RI(4), RI(2))}
    \cup {line_shape(VI(-1, 0), VI(1, 0)), line_shape(VI(0, -2), VI(0, 2)),
          line_shape(VI(0, 0), VI(0, 0))}
CollidersA == {collider(p, b, s) : p \in PosA, b \in Bodies, s \in Shapes}
CollidersB == {collider(p, b, s) : p \in PosB, b \in Bodies, s \in Shapes}

\* The vector whose length the test of a against b takes (none for the
\* unhandled pairs).
length_taken(a, b) ==
    CASE a.shape.kind = "circle" /\ b.shape.kind = "circle" ->
            circle_circle_delta(a.pos, b.pos)
      [] a.shape.kind = "circle" /\ b.shape.kind = "box" ->
            circle_box_delta(a.pos, b.pos, b.shape)
      [] a.shape.kind = "circle" /\ b.shape.kind = "line" ->
            circle_line_diff(a.pos, b.pos, b.shape)
      [] a.shape.kind = "box" /\ b.shape.kind = "circle" ->
            circle_box_delta(b.pos, a.pos, a.shape)
      [] a.shape.kind = "line" /\ b.shape.kind = "circle" ->
            circle_line_diff(b.pos, a.pos, a.shape)
      [] OTHER -> VI(0, 0)

\* The pairs on which every square root the test takes is exact.
ExactPair(a, b) == RIsSquare(VDot(length_taken(a, b), length_taken(a, b)))

IdleCt ==
    /\ ct_a = collider(VI(0, 0), static_body, circle_shape(R0))
    /\ ct_b = collider(VI(0, 0), static_body, circle_shape(R0))
    /\ ct_res = Pending

InitCt ==
    /\ ct_a \in CollidersA
    /\ ct_b \in CollidersB
    /\ ExactPair(ct_a, ct_b)
    /\ ct_res = Pending

(***************************************************************************)
(* Ray casts (collision.cpp).                                              *)
(*                                                                         *)
(* A float is a finite number, an infinity or a NaN: ray_cast(ray, line)   *)
(* divides by a cross product that can be zero.                            *)
(***************************************************************************)
Fin(v) == [kind |-> "fin", v |-> v]
Inf(sign) == [kind |-> "inf", sign |-> sign]
NaN == [kind |-> "nan"]

\* float x / float y for finite x, y.  x / 0 is NaN for x = 0 and an
\* infinity otherwise; the zero is taken as +0.0 (for a ray with a non-zero
\* direction what ray_cast(ray, line) returns is the same for -0.0).
FDiv(a, b) ==
    With2(LAMBDA x, y :
        IF y.n # 0 THEN Fin(RDiv(x, y))
        ELSE IF x.n = 0 THEN NaN
        ELSE Inf(IF x.n > 0 THEN 1 ELSE -1),
    a, b)

\* a < b on floats: false when either is a NaN
FLt(x, y) ==
    With2(LAMBDA a, b :
        CASE a.kind = "nan" \/ b.kind = "nan" -> FALSE
          [] a.kind = "fin" /\ b.kind = "fin" -> RLt(a.v, b.v)
          [] a.kind = "inf" /\ b.kind = "fin" -> a.sign < 0
          [] a.kind = "fin" /\ b.kind = "inf" -> b.sign > 0
          [] OTHER -> a.sign < b.sign,
    x, y)

\* std::min(a, b) = (b < a) ? b : a
FMin(x, y) == With2(LAMBDA a, b : IF FLt(b, a) THEN b ELSE a, x, y)

\* std::isfinite
is_finite(a) == a.kind = "fin"

\* std::optional<float>
RayNone == [kind |-> "none"]
RaySome(t) == [kind |-> "some", t |-> t]

ray(start, dir) == [start |-> start, dir |-> dir]
circle(centre, radius) ==
    [kind |-> "circle", centre |-> centre, radius |-> radius]
line(start, end) == [kind |-> "line", start |-> start, end |-> end]
box(centre, width, height) ==
    [kind |-> "box", centre |-> centre, width |-> width, height |-> height]

cross_2d(u, v) ==
    With2(LAMBDA a, b : RSub(RMul(a.x, b.y), RMul(a.y, b.x)), u, v)

\* B * B - dot(dir, dir) * C of ray_cast(ray, circle)
circle_disc(r, c) ==
    With(LAMBDA m :
    With(LAMBDA B :
    With(LAMBDA C : RSub(RMul(B, B), RMul(VDot(r.dir, r.dir), C)),
    RSub(VDot(m, m), RMul(c.radius, c.radius))),
    VDot(m, r.dir)),
    VSub(r.start, c.centre))

\* ray_cast(ray, circle), for a ray whose direction is not (0, 0)
ray_cast_circle(r, c) ==
    With(LAMBDA m :
    With(LAMBDA B :
    With(LAMBDA C :
    With(LAMBDA disc :
        IF RLt(R0, C) /\ RLt(R0, B) THEN RayNone
        ELSE IF RLt(disc, R0) THEN RayNone
        ELSE With(LAMBDA t : IF RLt(t, R0) THEN RayNone
                             ELSE RaySome(Fin(t)),
                  RDiv(RSub(RNeg(B), RSqrt(disc)), VDot(r.dir, r.dir))),
    circle_disc(r, c)),
    RSub(VDot(m, m), RMul(c.radius, c.radius))),
    VDot(m, r.dir)),
    VSub(r.start, c.centre))

\* ray_cast(ray, line).  The guard std::abs(rxs) < 0.0f never holds.
ray_cast_line(r, l) ==
    With(LAMBDA line_dir :
    With(LAMBDA rxs :
    With(LAMBDA line_to_ray :
    With(LAMBDA t :
    With(LAMBDA u :
        IF RLt(RAbs(rxs), R0) THEN RayNone
        ELSE IF FLt(t, Fin(R0)) THEN RayNone
        ELSE IF FLt(u, Fin(R0)) \/ FLt(Fin(R1), u) THEN RayNone
        ELSE RaySome(t),
    FDiv(cross_2d(line_to_ray, r.dir), rxs)),
    FDiv(cross_2d(line_to_ray, line_dir), rxs)),
    VSub(l.start, r.start)),
    cross_2d(r.dir, line_dir)),
    VSub(l.end, l.start))

\* The two divisions by rxs of ray_cast(ray, line) are reached with
\* rxs = 0: the guard before them has not returned.
divides_by_zero(r, l) ==
    With(LAMBDA rxs : ~RLt(RAbs(rxs), R0) /\ rxs = R0,
         cross_2d(r.dir, VSub(l.end, l.start)))

\* best = std::min(best, *t) over the casts at a list of segments, from
\* best = infinity; none unless best is finite.
RECURSIVE min_over_lines(_, _, _)
min_over_lines(r, lines, best) ==
    IF lines = <<>> THEN best
    ELSE With(LAMBDA t :
         With(LAMBDA next : min_over_lines(r, Tail(lines), next),
         IF t.kind = "some" THEN FMin(best, t.t) ELSE best),
         ray_cast_line(r, Head(lines)))

ray_cast_lines(r, lines) ==
    With(LAMBDA best : IF ~is_finite(best) THEN RayNone ELSE RaySome(best),
         min_over_lines(r, lines, Inf(1)))

\* The corners of a box (y grows downwards: tl is the top left one).
box_tl(b) == VAdd(b.centre, VDivS(V(RNeg(b.width), RNeg(b.height)), RI(2)))
box_tr(b) == VAdd(b.centre, VDivS(V(b.width, RNeg(b.height)), RI(2)))
box_bl(b) == VAdd(b.centre, VDivS(V(RNeg(b.width), b.height), RI(2)))
box_br(b) == VAdd(b.centre, VDivS(V(b.width, b.height), RI(2)))

\* The four segments ray_cast(ray, box) casts at, in its order.
box_lines(b) ==
    <<line(box_tl(b), box_tr(b)), line(box_tr(b), box_bl(b)),
      line(box_bl(b), box_br(b)), line(box_br(b), box_tl(b))>>

\* ray_cast(ray, box)
ray_cast_box(r, b) ==
    With(LAMBDA lines : ray_cast_lines(r, lines), box_lines(b))

\* The call ray_cast(ray_r, ray_target) on a circle.
RayCastCircle ==
    /\ ray_res = Pending
    /\ ray_target.kind = "circle"
    /\ ray_res' = ray_cast_circle(ray_r, ray_target)
    /\ UNCHANGED <<ray_r, ray_target, ray_div0>>
    /\ UNCHANGED other_than_ray

\* The call ray_cast(ray_r, ray_target) on a box.
RayCastBox ==
    /\ ray_res = Pending
    /\ ray_target.kind = "box"
    /\ ray_res' = ray_cast_box(ray_r, ray_target)
    /\ ray_div0' = \E k \in 1..4 :
                      divides_by_zero(ray_r, box_lines(ray_target)[k])
    /\ UNCHANGED <<ray_r, ray_target>>
    /\ UNCHANGED other_than_ray

\* The call ray_cast(ray_r, ray_target) on a line.
RayCastLine ==
    /\ ray_res = Pending
    /\ ray_target.kind = "line"
    /\ ray_res' = ray_cast_line(ray_r, ray_target)
    /\ ray_div0' = divides_by_zero(ray_r, ray_target)
    /\ UNCHANGED <<ray_r, ray_target>>
    /\ UNCHANGED other_than_ray

(***************************************************************************)
(* The rays and shapes a ray_cast is tried on.                             *)
(***************************************************************************)
Starts == {VI(i, j) : i \in -MaxStart..MaxStart, j \in -MaxStart..MaxStart}
\* Directions: not (0, 0); axis-aligned and diagonal, unit and not.
Dirs == ({VI(i, j) : i \in -1..1, j \in -1..1} \ {VI(0, 0)})
        \cup {VI(2, 0), VI(0, -2)}
Rays == {ray(p, d) : p \in Starts, d \in Dirs}
Circles == {circle(c, RI(k)) : c \in {VI(0, 0), VI(1, -1)}, k \in 0..2}
\* Segments: along an axis, and a diagonal one.
Lines == {line(VI(-1, 0), VI(1, 0)), line(VI(1, -1), VI(1, 1)),
          line(VI(0, 0), VI(2, 2))}
Boxes == {box(c, RI(wh[1]), RI(wh[2])) :
             c \in {VI(0, 0), VI(1, 0)}, wh \in {<<2, 2>>, <<4, 2>>}}

\* The casts at a circle whose square root, if taken, is exact.
ExactCast(r, c) == RLt(circle_disc(r, c), R0) \/ RIsSquare(circle_disc(r, c))

IdleRay ==
    /\ ray_r = ray(VI(0, 0), VI(1, 0))
    /\ ray_target = circle(VI(0, 0), R0)
    /\ ray_res = Pending
    /\ ray_div0 = FALSE

InitRay ==
    /\ ray_r \in Rays
    /\ ray_target \in Circles \cup Boxes \cup Lines
    /\ ray_target.kind = "circle" => ExactCast(ray_r, ray_target)
    /\ ray_res = Pending
    /\ ray_div0 = FALSE

(***************************************************************************)
(* simulation::step (simulation.cpp): the pieces of one substep, as        *)
(* functions of the array of colliders.  A contact holds the indices of    *)
(* its two bodies, 0-based as in the code.                                 *)
(***************************************************************************)
contact(a, b, normal, penetration) ==
    [a |-> a, b |-> b, normal |-> normal, penetration |-> penetration]

safe_inverse(x) == IF x = R0 THEN R0 ELSE RDiv(R1, x)

inv_mass(c) == IF ~is_dynamic(c) THEN R0 ELSE safe_inverse(c.body.mass)

velocity(c) == IF is_dynamic(c) THEN c.body.vel ELSE VI(0, 0)

apply_impulse(c, impulse) ==
    IF is_dynamic(c)
    THEN [c EXCEPT !.body.vel =
              VAdd(@, VScale(impulse, safe_inverse(c.body.mass)))]
    ELSE c

\* std::holds_alternative<attractor_body>(c.body)
is_attractor(c) == c.body.kind = "attractor"

\* A faulty loop bound: one substep too many.
num_substeps_off_by_one == 20 + 1

\* const auto dt = frame_dt / num_substeps
num_substeps == 20
substep_dt(frame_dt) == RDiv(frame_dt, RI(num_substeps))

\* 1. integrate positions
integrate_positions(cs, dt) ==
    [k \in 1..Len(cs) |->
        IF is_dynamic(cs[k])
        THEN [cs[k] EXCEPT !.pos = VAdd(@, VScale(cs[k].body.vel, dt))]
        ELSE cs[k]]

\* The pairs (i, j), i < j < n, in the order the two nested loops visit them
RECURSIVE pairs_from(_, _, _)
pairs_from(i, j, n) ==
    IF i >= n THEN <<>>
    ELSE IF j >= n THEN pairs_from(i + 1, i + 2, n)
    ELSE <<(<<i, j>>)>> \o pairs_from(i, j + 1, n)

\* Faulty loops: the inner one starts at 0, so that each pair is visited
\* in both orders.
all_pairs_both_orders(n) ==
    With(LAMBDA ps : ps \o [k \in 1..Len(ps) |-> <<ps[k][2], ps[k][1]>>],
         pairs_from(0, 1, n))

all_pairs(n) == pairs_from(0, 1, n)

\* The pull of an attractor on the body c along direction:
\* vel += direction * attraction * dt
attraction_increment(direction, col, dt) ==
    With(LAMBDA strength :
    With(LAMBDA attraction : VScale(VScale(direction, attraction), dt),
    RMul(strength, strength)),
    RMul(col.penetration, RI(20)))

\* ... followed by vel *= (1.0f - 0.2f * strength * dt)
attract(c, direction, col, dt) ==
    With(LAMBDA strength :
        [c EXCEPT !.body.vel =
            VScale(VAdd(@, attraction_increment(direction, col, dt)),
                   RSub(R1, RMul(RMul(Rat(2, 10), strength), dt)))],
    RMul(col.penetration, RI(20)))

\* A faulty direction: the normal is not negated.
pull_direction_first_unflipped(col) == col.normal

\* The direction of the pull when the attractor is the first of the pair
pull_direction_first(col) == VNeg(col.normal)

\* The direction of the pull when the attractor is the second of the pair
pull_direction_second(col) == col.normal

\* The state of the pair loop: the colliders, the contacts pushed so far,
\* the pulls applied so far (a history), and how the loop has ended:
\* "ok", "terminate" (assert_that) or "bad_variant_access" (std::get).
loop_state(cs, contacts, pulls, end) ==
    [cs |-> cs, contacts |-> contacts, pulls |-> pulls, end |-> end]

\* The pull of the attractor at index by on the body at index on
pull(st, on, by, direction, col, dt) ==
    [st EXCEPT
        !.cs[on + 1] = attract(@, direction, col, dt),
        !.pulls = Append(@, [on |-> on, by |-> by,
                             inc |-> attraction_increment(direction,
                                                          col, dt)])]

\* What the inner loop does with the result col of collision_test(ci, cj)
handle_collision(st, i, j, ci, cj, col, dt) ==
    IF col.kind = "terminate" THEN [st EXCEPT !.end = "terminate"]
    ELSE IF col.kind = "none" THEN st
    ELSE IF is_attractor(ci) /\ is_attractor(cj) THEN st
    ELSE IF is_attractor(ci)
         THEN IF ~is_dynamic(cj)
              THEN [st EXCEPT !.end = "bad_variant_access"]
              ELSE pull(st, j, i, pull_direction_first(col), col, dt)
    ELSE IF is_attractor(cj)
         THEN IF ~is_dynamic(ci)
              THEN [st EXCEPT !.end = "bad_variant_access"]
              ELSE pull(st, i, j, pull_direction_second(col), col, dt)
    ELSE [st EXCEPT !.contacts =
             Append(@, contact(i, j, col.normal, col.penetration))]

\* The body of the inner loop for the pair (i, j)
pair_body(st, i, j, dt) ==
    With(LAMBDA col :
        handle_collision(st, i, j, st.cs[i + 1], st.cs[j + 1], col, dt),
    collision_test(st.cs[i + 1], st.cs[j + 1]))

\* 2. generate contacts and handle attraction: the two nested loops
RECURSIVE pair_loop(_, _, _)
pair_loop(st, ps, dt) ==
    IF ps = <<>> \/ st.end # "ok" THEN st
    ELSE With2(LAMBDA next, rest : pair_loop(next, rest, dt),
               pair_body(st, Head(ps)[1], Head(ps)[2], dt), Tail(ps))

generate_and_attract(cs, dt) ==
    With2(LAMBDA st, ps : pair_loop(st, ps, dt),
          loop_state(cs, <<>>, <<>>, "ok"), all_pairs(Len(cs)))

(***************************************************************************)
(* solve_contacts: the system A * j = b and its elimination.  A is a       *)
(* sequence of rows, b a sequence; indices are 1-based here.               *)
(***************************************************************************)
\* A faulty restitution: the bodies bounce back at full speed.
restitution_elastic == R1

restitution == Rat(8, 10)

\* 1e-8f
Eps8 == Rat(1, 100000000)

\* b[i]: restitution when moving into contact, plus the Baumgarte bias
contact_bias(cs, ci) ==
    With(LAMBDA rv :
    With(LAMBDA rel_vel :
        RAdd(IF RLt(rel_vel, RNeg(Eps6))
             THEN RMul(RNeg(RAdd(R1, restitution)), rel_vel)
             ELSE R0,
             RMul(Rat(2, 10), RMax(ci.penetration, R0))),
    VDot(rv, ci.normal)),
    VSub(velocity(cs[ci.b + 1]), velocity(cs[ci.a + 1])))

\* A faulty matrix: each contact is solved on its own, as if no other
\* contact shared a body with it.
matrix_entry_own(cs, ci, cj) ==
    IF ci.a = cj.a /\ ci.b = cj.b
    THEN RAdd(inv_mass(cs[ci.a + 1]), inv_mass(cs[ci.b + 1]))
    ELSE R0

\* A[i * N + j]
matrix_entry(cs, ci, cj) ==
    With(LAMBDA dot :
    With(LAMBDA v1 :
    With(LAMBDA v2 :
    With(LAMBDA v3 :
        IF ci.b = cj.b
        THEN RAdd(v3, RMul(dot, inv_mass(cs[ci.b + 1]))) ELSE v3,
    IF ci.a = cj.b
    THEN RSub(v2, RMul(dot, inv_mass(cs[ci.a + 1]))) ELSE v2),
    IF ci.b = cj.a
    THEN RSub(v1, RMul(dot, inv_mass(cs[ci.b + 1]))) ELSE v1),
    IF ci.a = cj.a
    THEN RAdd(R0, RMul(dot, inv_mass(cs[ci.a + 1]))) ELSE R0),
    VDot(ci.normal, cj.normal))

\* The std::vector holding f[1], ..., f[Len(f)]
Vector(f) == SubSeq(f, 1, Len(f))

constraint_matrix(cs, contacts) ==
    Vector([i \in 1..Len(contacts) |->
               Vector([j \in 1..Len(contacts) |->
                          matrix_entry(cs, contacts[i], contacts[j])])])

bias_vector(cs, contacts) ==
    Vector([i \in 1..Len(contacts) |-> contact_bias(cs, contacts[i])])

\* Row k and b[k] scaled by inv_diag, from column k on
scaled_row(A, k, inv_diag) ==
    Vector([col \in 1..Len(A) |->
               IF col >= k THEN RMul(A[k][col], inv_diag) ELSE A[k][col]])

\* The other rows, and b, less their multiples of the scaled row k
reduce_rows(A, b, k, row_k, b_k) ==
    <<Vector([row \in 1..Len(b) |->
         IF row = k THEN row_k
         ELSE Vector([col \in 1..Len(b) |->
                 IF col >= k
                 THEN RSub(A[row][col], RMul(A[row][k], row_k[col]))
                 ELSE A[row][col]])]),
      Vector([row \in 1..Len(b) |->
         IF row = k THEN b_k
         ELSE RSub(b[row], RMul(A[row][k], b_k))])>>

\* One round of the elimination, on pivot k: <<A, b>> after it
eliminate_pivot(A, b, k) ==
    IF RLt(RAbs(A[k][k]), Eps8) THEN <<A, b>>
    ELSE With(LAMBDA inv_diag :
         With2(LAMBDA row_k, b_k : reduce_rows(A, b, k, row_k, b_k),
         scaled_row(A, k, inv_diag), RMul(b[k], inv_diag)),
         RDiv(R1, A[k][k]))

\* naive Gaussian elimination, pivots k..N
RECURSIVE eliminate(_, _, _)
eliminate(A, b, k) ==
    IF k > Len(b) THEN <<A, b>>
    ELSE With(LAMBDA Ab : eliminate(Ab[1], Ab[2], k + 1),
              eliminate_pivot(A, b, k))

\* The impulse magnitudes j of the contacts
impulses(cs, contacts) ==
    With2(LAMBDA A, b : eliminate(A, b, 1)[2],
          constraint_matrix(cs, contacts), bias_vector(cs, contacts))

\* apply_impulse(a, -impulse); apply_impulse(b, impulse)
apply_contact_impulse(cs, c, j_i) ==
    With(LAMBDA impulse :
        [cs EXCEPT ![c.a + 1] = apply_impulse(@, VNeg(impulse)),
                   ![c.b + 1] = apply_impulse(@, impulse)],
    VScale(c.normal, j_i))

\* apply impulses, contact by contact from contact i on
RECURSIVE apply_impulses(_, _, _, _)
apply_impulses(cs, contacts, j, i) ==
    IF i > Len(j) THEN cs
    ELSE With(LAMBDA next : apply_impulses(next, contacts, j, i + 1),
              apply_contact_impulse(cs, contacts[i], j[i]))

\* 3. solve collisions
solve_contacts(cs, contacts) ==
    IF Len(contacts) = 0 THEN cs
    ELSE With(LAMBDA j : apply_impulses(cs, contacts, j, 1),
              impulses(cs, contacts))

(***************************************************************************)
(* fix_positions.  A contact between two bodies of inverse mass 0 divides  *)
(* by zero and leaves NaN in both positions: nan tells that it happened.   *)
(***************************************************************************)
\* A faulty correction: each body takes half of it, whatever its mass.
correction_share_unweighted(c, inv_a, inv_b) ==
    With(LAMBDA half : <<half, half>>,
         VScale(c.normal, RMul(c.penetration, Rat(2, 10))))

\* A faulty correction: the two shares are exchanged.
correction_share_exchanged(c, inv_a, inv_b) ==
    With(LAMBDA correction :
        <<VScale(correction, inv_b), VScale(correction, inv_a)>>,
    VDivS(VScale(c.normal, RMul(c.penetration, Rat(4, 10))),
          RAdd(inv_a, inv_b)))

\* The share of the correction a body of inverse mass inv takes
correction_share(c, inv_a, inv_b) ==
    With(LAMBDA correction :
        <<VScale(correction, inv_a), VScale(correction, inv_b)>>,
    VDivS(VScale(c.normal, RMul(c.penetration, Rat(4, 10))),
          RAdd(inv_a, inv_b)))

fix_state(cs, nan) == [cs |-> cs, nan |-> nan]

\* The body of the loop for one contact
\* a.pos -= share[1]; b.pos += share[2]
move_apart(cs, c, share) ==
    [cs EXCEPT ![c.a + 1].pos = VSub(@, share[1]),
               ![c.b + 1].pos = VAdd(@, share[2])]

fix_contact(st, c) ==
    With(LAMBDA inv_a :
    With(LAMBDA inv_b :
        IF RLe(c.penetration, R0) THEN st
        ELSE IF RAdd(inv_a, inv_b) = R0 THEN [st EXCEPT !.nan = TRUE]
        ELSE [st EXCEPT !.cs = move_apart(@, c, correction_share(c, inv_a,
                                                                  inv_b))],
    inv_mass(st.cs[c.b + 1])),
    inv_mass(st.cs[c.a + 1]))

RECURSIVE fix_loop(_, _, _)
fix_loop(st, contacts, i) ==
    IF i > Len(contacts) THEN st
    ELSE With(LAMBDA next : fix_loop(next, contacts, i + 1),
              fix_contact(st, contacts[i]))

\* 4. positional correction
fix_positions(cs, contacts) == fix_loop(fix_state(cs, FALSE), contacts, 1)

(***************************************************************************)
(* Damping.  std::exp is exp(0) = 1, and otherwise the sum of the first    *)
(* ExpTerms + 1 terms of its series (for the small arguments step gives    *)
(* it, the terms beyond are below the rounding).                           *)
(***************************************************************************)
RECURSIVE exp_series(_, _, _, _)
exp_series(x, term, k, sum) ==
    IF k > ExpTerms \/ term = R0 THEN sum
    ELSE With(LAMBDA next :
         With(LAMBDA total : exp_series(x, next, k + 1, total),
         RAdd(sum, next)),
         RDiv(RMul(term, x), RI(k)))

exp(a) == With(LAMBDA x : IF x = R0 THEN R1 ELSE exp_series(x, R1, 1, R1), a)

\* A faulty damping: the sign of the exponent is lost.
damping_growing(dt) == exp(RMul(Rat(11, 10), dt))

\* const auto damping = std::exp(-1.1f * dt)
damping(dt) == exp(RMul(Rat(-11, 10), dt))

\* The velocity below which a body is stopped
velocity_floor == Rat(1, 100)

\* vel *= damping; if (length(vel) < 0.01f) vel = {0, 0}
damp_velocity(vel, factor) ==
    With(LAMBDA v : IF RLt(VLength(v), velocity_floor) THEN VI(0, 0) ELSE v,
         VScale(vel, factor))

damp_by(cs, factor) ==
    [k \in 1..Len(cs) |->
        IF is_dynamic(cs[k])
        THEN [cs[k] EXCEPT !.body.vel = damp_velocity(@, factor)]
        ELSE cs[k]]

\* 5. global damping
damp(cs, dt) == With(LAMBDA factor : damp_by(cs, factor), damping(dt))

(***************************************************************************)
(* simulation::step(frame_dt) as a process: the call, then the five phases *)
(* of each of its substeps, one action each.  colliders is d_data.         *)
(***************************************************************************)
\* The call: dt is computed and the loop over the substeps is entered.
StepBegin(frame_dt) ==
    /\ ~terminated
    /\ st_pc = "idle"
    /\ st_dt' = substep_dt(frame_dt)
    /\ st_i' = 0
    /\ st_pc' = IF 0 # num_substeps THEN "integrate" ELSE "idle"
    /\ st_steps' = IF st_steps < MaxSteps THEN st_steps + 1 ELSE st_steps
    /\ st_begun' = d_data
    /\ st_phases' = <<>>
    /\ st_contacts' = <<>>
    /\ st_pulls' = <<>>
    /\ st_touched' = {}
    /\ UNCHANGED <<d_data, terminated, st_nan, st_ended>>

StepCall(frame_dt) ==
    /\ StepBegin(frame_dt)
    /\ UNCHANGED other_than_step

\* 1. integrate positions
Integrate ==
    /\ st_pc = "integrate"
    /\ d_data' = integrate_positions(d_data, st_dt)
    /\ st_pc' = "contacts"
    /\ st_phases' = Append(st_phases, 1)
    /\ UNCHANGED <<terminated, st_dt, st_i, st_contacts, st_nan, st_ended,
                   st_steps, st_begun, st_pulls, st_touched>>
    /\ UNCHANGED other_than_step

\* 2. generate contacts and handle attraction.  A failed assert_that ends
\* the process, and so does the exception of a failed std::get, which
\* nothing catches.
GenerateContacts ==
    /\ st_pc = "contacts"
    /\ \E g \in {generate_and_attract(d_data, st_dt)} :
          /\ d_data' = g.cs
          /\ st_contacts' = g.contacts
          /\ st_pulls' = g.pulls
          /\ st_pc' = IF g.end = "ok" THEN "solve" ELSE "ended"
          /\ st_ended' = IF g.end = "ok" THEN st_ended ELSE g.end
          /\ terminated' = (g.end # "ok")
          /\ st_touched' = st_touched \cup
                 {<<g.contacts[k].a, g.contacts[k].b>> :
                     k \in 1..Len(g.contacts)}
    /\ st_phases' = Append(st_phases, 2)
    /\ UNCHANGED <<st_dt, st_i, st_nan, st_steps, st_begun>>
    /\ UNCHANGED other_than_step

\* 3. solve collisions
SolveContacts ==
    /\ st_pc = "solve"
    /\ d_data' = solve_contacts(d_data, st_contacts)
    /\ st_pc' = "fix"
    /\ st_phases' = Append(st_phases, 3)
    /\ UNCHANGED <<terminated, st_dt, st_i, st_contacts, st_nan, st_ended,
                   st_steps, st_begun, st_pulls, st_touched>>
    /\ UNCHANGED other_than_step

\* 4. positional correction
FixPositions ==
    /\ st_pc = "fix"
    /\ \E f \in {fix_positions(d_data, st_contacts)} :
          /\ d_data' = f.cs
          /\ st_nan' = (st_nan \/ f.nan)
    /\ st_pc' = "damp"
    /\ st_phases' = Append(st_phases, 4)
    /\ UNCHANGED <<terminated, st_dt, st_i, st_contacts, st_ended,
                   st_steps, st_begun, st_pulls, st_touched>>
    /\ UNCHANGED other_than_step

\* 5. damping; then ++i, and the next substep or the return
Damp ==
    /\ st_pc = "damp"
    /\ d_data' = damp(d_data, st_dt)
    /\ st_i' = st_i + 1
    /\ st_pc' = IF st_i + 1 # num_substeps THEN "integrate" ELSE "idle"
    /\ st_phases' = Append(st_phases, 5)
    /\ UNCHANGED <<terminated, st_dt, st_contacts, st_nan, st_ended,
                   st_steps, st_begun, st_pulls, st_touched>>
    /\ UNCHANGED other_than_step

IdleStep ==
    /\ st_pc = "idle"
    /\ st_dt = R0
    /\ st_i = 0
    /\ st_contacts = <<>>
    /\ st_nan = FALSE
    /\ st_ended = "no"
    /\ st_steps = 0
    /\ st_begun = <<>>
    /\ st_phases = <<>>
    /\ st_pulls = <<>>
    /\ st_touched = {}

\* No game is being played.
IdleGame ==
    /\ cue_ball = 0
    /\ object_balls = <<>>
    /\ pockets = <<>>
    /\ border_boxes = <<>>
    /\ accumulator = R0
    /\ cue_ball_coll = 0
    /\ g_pc = "none"
    /\ g_since_get = {}
    /\ g_stale_uses = {}
    /\ g_removed = <<>>
    /\ g_elapsed = R0
    /\ g_calls = 0
    /\ g_frames = 0
    /\ g_k = 0

(***************************************************************************)
(* The driver's surface as the game uses it (game.m.cpp): the typed        *)
(* constructors, remove, and the write of a shot's velocity through the    *)
(* reference get returns.  The simulation keeps its colliders in an        *)
(* id_vector; step is not re-entered, so these run between calls of step.  *)
(***************************************************************************)
add_dynamic_circle(pos, radius, mass) ==
    collider(pos, dynamic_body(VI(0, 0), mass), circle_shape(radius))

add_attractor_circle(pos, radius) ==
    collider(pos, attractor_body, circle_shape(radius))

\* A faulty constructor: the box is given a dynamic body.
add_box_dynamic(centre, width, height) ==
    collider(centre, dynamic_body(VI(0, 0), R1), box_shape(width, height))

\* always static
add_box(centre, width, height) ==
    collider(centre, static_body, box_shape(width, height))

add_static_line(start, end) ==
    collider(VI(0, 0), static_body, line_shape(start, end))

AddDynamicCircle(pos, radius, mass) ==
    /\ st_pc = "idle"
    /\ Insert(add_dynamic_circle(pos, radius, mass))

AddAttractorCircle(pos, radius) ==
    /\ st_pc = "idle"
    /\ Insert(add_attractor_circle(pos, radius))

AddBox(centre, width, height) ==
    /\ st_pc = "idle"
    /\ Insert(add_box(centre, width, height))

AddStaticLine(start, end) ==
    /\ st_pc = "idle"
    /\ Insert(add_static_line(start, end))

\* remove(id)
Remove(id) ==
    /\ st_pc = "idle"
    /\ Erase(id)

\* std::get<dynamic_body>(sim.get(id).body).vel = vel, as the game does to
\* its cue ball
SetVelocity(id, vel) ==
    /\ st_pc = "idle"
    /\ is_valid(id)
    /\ index_in_bounds(id)
    /\ is_dynamic(get(id))
    /\ Modify(id, [get(id) EXCEPT !.body.vel = vel])

InitStore ==
    /\ d_data = <<>>
    /\ d_data_id = <<>>
    /\ d_id_to_index = EmptyMap
    /\ d_next = 0
    /\ terminated = FALSE
    /\ ub = FALSE
    /\ issued = <<>>
    /\ erased = <<>>
    /\ shadow = EmptyMap
    /\ last_call = [op |-> "none", id |-> 0,
                    pre |-> [data |-> <<>>, ids |-> <<>>, map |-> EmptyMap,
                             next |-> 0]]

InitSim ==
    /\ sim_data = <<>>
    /\ sim_data_id = <<>>
    /\ sim_id_to_index = EmptyMap
    /\ sim_next = 0
    /\ sim_terminated = FALSE
    /\ sim_ub = FALSE
    /\ sim_removed = {}
    /\ sim_last = [op |-> "none", id |-> 0,
                   pre |-> [data |-> <<>>, ids |-> <<>>, map |-> EmptyMap,
                            next |-> 0],
                   removed |-> {}]

Init == InitStore /\ InitSim /\ IdleCt /\ IdleRay /\ IdleStep /\ IdleGame

InitCollide == InitStore /\ InitSim /\ InitCt /\ IdleRay /\ IdleStep /\ IdleGame

InitRayCast == InitStore /\ InitSim /\ IdleCt /\ InitRay /\ IdleStep /\ IdleGame

\* The store after insert(cs[1]), ..., insert(cs[n]) on an empty store.
InitStoreWith(cs) ==
    LET n == Len(cs)
        upto(m) == [data |-> SubSeq(cs, 1, m),
                    ids |-> [k \in 1..m |-> k - 1],
                    map |-> [id \in 0..(m - 1) |-> id],
                    next |-> m]
    IN /\ d_data = cs
       /\ d_data_id = upto(n).ids
       /\ d_id_to_index = upto(n).map
       /\ d_next = n
       /\ terminated = FALSE
       /\ ub = FALSE
       /\ issued = upto(n).ids
       /\ erased = <<>>
       /\ shadow = [id \in 0..(n - 1) |-> cs[id + 1]]
       /\ last_call = IF n = 0
                      THEN [op |-> "none", id |-> 0, pre |-> upto(0)]
                      ELSE [op |-> "insert", id |-> n - 1,
                            pre |-> upto(n - 1)]

NextStore ==
    \/ \E c \in Vals : Insert(c)
    \/ \E id \in Ids : Erase(id)
    \/ \E id \in Ids : Get(id)
    \/ \E id \in Ids, v \in Vals : Modify(id, v)

\* The entity store of id_vector.hpp under any sequence of calls.
Spec == Init /\ [][NextStore]_vars

NextSim ==
    \/ \E c \in Vals : AddCollider(c)
    \/ \E id \in Ids : RemoveCollider(id)
    \/ \E id \in Ids : SimGet(id)

\* The id_vector of simulation.hpp under any sequence of calls.
SpecSim == Init /\ [][NextSim]_vars

NextCollide == CollisionTest

\* One call of collision_test on any pair of colliders.
SpecCollide == InitCollide /\ [][NextCollide]_vars

NextRay ==
    \/ RayCastCircle
    \/ RayCastBox
    \/ RayCastLine

\* One call of ray_cast on any ray and circle, box or line.
SpecRay == InitRayCast /\ [][NextRay]_vars

(***************************************************************************)
(* The bodies a table is built of, and the frame times it is stepped by.   *)
(***************************************************************************)
\* simulation::time_step, the frame time of step()
time_step == Rat(1, 60)

FrameDts == {time_step}

BallSpots == {VI(0, 0), V(Rat(3, 2), R0)}
PocketSpots == {V(R0, Rat(3, 2))}
BoxSpots == {V(R0, Rat(-3, 2))}
ShotVels == {VI(1, 0)}
\* The id of the body shots are played with: the first one created.
CueBall == 0

\* A call of step, while the calls explored are not used up
BoundedStepCall(frame_dt) ==
    /\ st_steps < MaxSteps
    /\ StepCall(frame_dt)

NextStep ==
    \/ \E frame_dt \in FrameDts : BoundedStepCall(frame_dt)
    \/ Integrate
    \/ GenerateContacts
    \/ SolveContacts
    \/ FixPositions
    \/ Damp

NextTable ==
    \/ \E pos \in BallSpots : AddDynamicCircle(pos, R1, R1)
    \/ \E pos \in PocketSpots : AddAttractorCircle(pos, R1)
    \/ \E centre \in BoxSpots : AddBox(centre, RI(2), RI(2))
    \/ AddStaticLine(V(RI(-1), Rat(3, 4)), V(RI(3), Rat(3, 4)))
    \/ \E id \in Ids : Remove(id)
    \/ \E vel \in ShotVels : SetVelocity(CueBall, vel)
    \/ \E frame_dt \in FrameDts : BoundedStepCall(frame_dt)
    \/ Integrate
    \/ GenerateContacts
    \/ SolveContacts
    \/ FixPositions
    \/ Damp

\* A table built through the typed constructors, bodies removed, shots
\* played, and stepped.
SpecTable == Init /\ [][NextTable]_vars

(***************************************************************************)
(* Prepared scenes: the colliders are in place when step is called.        *)
(***************************************************************************)
\* A ball of radius 1
ball(pos, vel, mass) == collider(pos, dynamic_body(vel, mass), circle_shape(R1))
\* A pocket of radius 1
pocket(pos) == add_attractor_circle(pos, R1)
\* A cushion: a box of sides 2
cushion(centre) == add_box(centre, RI(2), RI(2))

Reversed(cs) == [k \in 1..Len(cs) |-> cs[Len(cs) + 1 - k]]
BothOrders(S) == S \cup {Reversed(cs) : cs \in S}

\* A body on its own, at rest, below the velocity floor, just above it,
\* and faster.
LoneVels ==
    {VI(0, 0), V(Rat(1, 200), R0), V(Rat(51, 5000), R0),
     V(R0, Rat(-1, 50)), V(Rat(3, 250), Rat(4, 250))}
LoneScenes == {<<ball(VI(0, 0), vel, R1)>> : vel \in LoneVels}

\* Two equal balls on the x axis, apart by 2 + gap, approaching at speed v
\* each.  Not every one of them touches within a frame.
HeadOnSpeeds == {Rat(11, 1000), Rat(1, 2), R1, RI(2)}
HeadOnGaps == {Rat(2, 10000), Rat(2, 1000), Rat(2, 100)}
HeadOnMasses == {R1, RI(2)}
head_on(gap, v, mass) ==
    With(LAMBDA x : <<ball(V(RNeg(x), R0), V(v, R0), mass),
                      ball(V(x, R0), V(RNeg(v), R0), mass)>>,
         RAdd(R1, RDiv(gap, RI(2))))
HeadOnScenes ==
    BothOrders({head_on(gap, v, mass) :
                   gap \in HeadOnGaps, v \in HeadOnSpeeds,
                   mass \in HeadOnMasses})

\* A ball in the range of a pocket (or just out of it), stored before or
\* after it; and two balls in the range of one pocket.
PocketSpotsNear ==
    {V(R0, Rat(3, 2)), V(Rat(9, 10), Rat(6, 5)), VI(1, 1), VI(0, 0),
     VI(-2, 0)}
PocketScenes ==
    BothOrders({<<pocket(pos), ball(VI(0, 0), vel, R1)>> :
                   pos \in PocketSpotsNear, vel \in {VI(0, 0), VI(1, 0)}}
               \cup {<<ball(VI(0, 0), VI(0, 0), R1), pocket(V(R0, Rat(3, 2))),
                       ball(VI(0, 3), VI(0, 0), RI(2))>>})

\* Balls in contact with a cushion, a line and each other.
ContactScenes ==
    BothOrders({<<ball(VI(0, 0), VI(0, -1), R1), cushion(V(R0, Rat(-3, 2)))>>,
                <<ball(VI(0, 0), VI(0, 1), RI(2)),
                  add_static_line(V(RI(-1), Rat(3, 4)), V(RI(3), Rat(3, 4)))>>,
                <<ball(VI(0, 0), VI(1, 0), R1),
                  ball(V(Rat(3, 2), R0), VI(0, 0), RI(2))>>,
                <<ball(VI(0, 0), VI(0, 0), R1),
                  ball(V(R0, Rat(3, 2)), VI(0, -1), R1),
                  cushion(V(R0, Rat(-3, 2))), pocket(VI(4, 0))>>})

\* A ball whose centre is inside a cushion.
SunkScenes ==
    {<<cushion(V(R0, Rat(-3, 2))), ball(VI(0, -1), VI(0, 0), R1)>>,
     <<ball(V(Rat(1, 2), RI(-1)), VI(1, 0), R1), pocket(VI(4, 0)),
       cushion(V(R0, Rat(-3, 2)))>>}

Scenes ==
    LoneScenes \cup HeadOnScenes \cup PocketScenes \cup ContactScenes
    \cup SunkScenes

InitScene ==
    /\ \E cs \in Scenes : InitStoreWith(cs)
    /\ InitSim /\ IdleCt /\ IdleRay /\ IdleStep /\ IdleGame

\* The five phases; the code of step runs them one after the other.
StepPhases ==
    \/ Integrate
    \/ GenerateContacts
    \/ SolveContacts
    \/ FixPositions
    \/ Damp

\* One call of step on a prepared scene.  Once called, step runs on.
SpecScene == InitScene /\ [][NextStep]_vars /\ WF_vars(StepPhases)

InitLone ==
    /\ \E cs \in LoneScenes : InitStoreWith(cs)
    /\ InitSim /\ IdleCt /\ IdleRay /\ IdleStep /\ IdleGame

NextLone ==
    \/ StepCall(time_step)
    \/ Integrate
    \/ GenerateContacts
    \/ SolveContacts
    \/ FixPositions
    \/ Damp

\* A body on its own, stepped frame after frame, as the game loop does.
SpecLone == InitLone /\ [][NextLone]_vars /\ WF_vars(NextLone)

\* A ball at the joint of two chained segments (add_chain): the segments
\* in line, or meeting at a corner that points at the ball.  The ball
\* rests on the joint, or is on its way into it, straight or aslant.
ChainJoints ==
    {<<add_static_line(VI(-2, 0), VI(0, 0)),
       add_static_line(VI(0, 0), VI(2, 0))>>,
     <<add_static_line(VI(-2, -2), VI(0, 0)),
       add_static_line(VI(0, 0), VI(2, -2))>>}
ChainBalls ==
    {ball(V(R0, Rat(9, 10)), vel, mass) :
        vel \in {VI(0, 0), VI(0, -1), V(Rat(1, 10), RI(-1))},
        mass \in {R1, RI(2)}}
\* The three bodies in each of their storage orders
Orders(cs) == {Vector([k \in 1..Len(cs) |-> cs[p[k]]]) :
                  p \in Permutations(1..Len(cs))}
ChainScenes ==
    UNION {Orders(<<b, joint[1], joint[2]>>) :
              b \in ChainBalls, joint \in ChainJoints}

InitChain ==
    /\ \E cs \in ChainScenes : InitStoreWith(cs)
    /\ InitSim /\ IdleCt /\ IdleRay /\ IdleStep /\ IdleGame

\* One call of step on a ball at the joint of a chain.
SpecChain == InitChain /\ [][NextStep]_vars

(***************************************************************************)
(* fix_positions on its own: one call on two bodies, of which at least one *)
(* is dynamic, and a list of contacts between them of which the last one   *)
(* is any contact and the ones before it have no penetration.              *)
(***************************************************************************)
FixBodies ==
    {ball(VI(0, 0), VI(0, 0), mass) : mass \in {R1, RI(2), RI(3)}}
    \cup {collider(VI(0, 0), static_body, circle_shape(R1)),
          add_static_line(VI(-2, 0), VI(2, 0))}
FixPairs ==
    {pair \in {<<a, [b EXCEPT !.pos = VI(1, 0)]>> :
                  a \in FixBodies, b \in FixBodies} :
        is_dynamic(pair[1]) \/ is_dynamic(pair[2])}
FixNormals == {VI(1, 0), VI(0, -1), V(Rat(3, 5), Rat(4, 5))}
FixPenetrations == {Rat(-1, 2), R0, Rat(1, 2), R1}
FixContacts ==
    {contact(0, 1, normal, penetration) :
        normal \in FixNormals, penetration \in FixPenetrations}
FixContactLists ==
    {<<c>> : c \in FixContacts}
    \cup {<<contact(0, 1, VI(1, 0), penetration), c>> :
             penetration \in {Rat(-1, 2), R0}, c \in FixContacts}

InitFix ==
    /\ \E pair \in FixPairs : InitStoreWith(pair)
    /\ InitSim /\ IdleCt /\ IdleRay /\ IdleGame
    /\ st_pc = "fix"
    /\ st_dt = substep_dt(time_step)
    /\ st_i = 0
    /\ st_contacts \in FixContactLists
    /\ st_nan = FALSE
    /\ st_ended = "no"
    /\ st_steps = 1
    /\ st_begun = d_data
    /\ st_phases = <<1, 2, 3>>
    /\ st_pulls = <<>>
    /\ st_touched = {}

\* One call of fix_positions.
SpecFix == InitFix /\ [][FixPositions]_vars

(***************************************************************************)
(* scene_game (game.m.cpp): the frame loop over a table.  The table holds  *)
(* the ids of its bodies; the bodies are in the simulation's store.        *)
(***************************************************************************)
\* A faulty interval: two steps' worth is taken off per call.
step_doubled == Rat(1, 30)

\* static constexpr auto step = 1.0 / 60.0
step == Rat(1, 60)

\* What timer.on_update() returns: no time, less than a step, a step, more
FrameTimes == {R0, time_step, Rat(1, 40)}

\* The mouse: no release of the button in the frame, or a shot
NoShot == [taken |-> FALSE, vel |-> VI(0, 0)]
ShotsTaken == {NoShot, [taken |-> TRUE, vel |-> VI(2, 0)]}

\* A table as set_cue_ball, add_triangle and add_border leave it: the cue
\* ball first (inside a pocket), the object balls (one inside a pocket, one
\* at its mouth, one away from it), the pockets, the border.
GameTable ==
    <<add_dynamic_circle(V(RI(-6), Rat(1, 2)), Rat(1, 2), R1),
      add_dynamic_circle(V(R0, Rat(11, 2)), Rat(1, 2), R1),
      add_dynamic_circle(V(R0, Rat(79, 20)), Rat(1, 2), R1),
      add_dynamic_circle(VI(6, 0), Rat(1, 2), R1),
      add_attractor_circle(VI(-6, 0), Rat(3, 2)),
      add_attractor_circle(VI(0, 5), Rat(3, 2)),
      add_static_line(VI(-8, -3), VI(8, -3))>>

InitGame ==
    /\ InitStoreWith(GameTable)
    /\ InitSim /\ IdleCt /\ IdleRay /\ IdleStep
    /\ cue_ball = 0
    /\ object_balls = <<[id |-> 1, is_pocketed |-> FALSE],
                        [id |-> 2, is_pocketed |-> FALSE],
                        [id |-> 3, is_pocketed |-> FALSE]>>
    /\ pockets = <<4, 5>>
    /\ border_boxes = <<6>>
    /\ accumulator = R0
    /\ cue_ball_coll = 0
    /\ g_pc = "frame"
    /\ g_since_get = {}
    /\ g_stale_uses = {}
    /\ g_removed = <<>>
    /\ g_elapsed = R0
    /\ g_calls = 0
    /\ g_frames = 0
    /\ g_k = 0

store_but_data == <<d_data_id, d_id_to_index, d_next, ub, issued, erased,
                    shadow, last_call>>
table_vars == <<cue_ball, object_balls, pockets, border_boxes>>
frame_history == <<g_stale_uses, g_removed, g_elapsed, g_calls, g_frames>>

\* t.sim.get(id) for each id of ids: every assertion passes
gets_return(ids) == \A id \in ids : assert_that(is_valid(id))

\* A failed assertion of get: std::terminate()
GameFatal ==
    /\ terminated' = TRUE
    /\ g_pc' = "ended"
    /\ UNCHANGED <<d_data, store_but_data, table_vars, accumulator,
                   cue_ball_coll, g_since_get, frame_history, g_k>>

\* The head of the frame: the time of the frame, the reference to the cue
\* ball, the events (a shot writes the velocity through the reference),
\* accumulator += dt.
BeginFrame(dt, shot) ==
    /\ g_pc = "frame"
    /\ ~terminated
    /\ g_frames < MaxFrames
    /\ IF ~gets_return({cue_ball}) THEN GameFatal
       ELSE /\ cue_ball_coll' = map_index(d_id_to_index, cue_ball)
            /\ g_since_get' = {}
            /\ d_data' =
                  IF shot.taken
                  THEN [d_data EXCEPT
                          ![map_index(d_id_to_index, cue_ball) + 1].body.vel
                             = shot.vel]
                  ELSE d_data
            /\ accumulator' = RAdd(accumulator, dt)
            /\ g_elapsed' = RAdd(g_elapsed, dt)
            /\ g_frames' = g_frames + 1
            /\ g_pc' = "loop"
            /\ UNCHANGED <<terminated, store_but_data, table_vars,
                           g_stale_uses, g_removed, g_calls, g_k>>
    /\ UNCHANGED step_vars
    /\ UNCHANGED other_than_game

\* while (accumulator > simulation::time_step) { t.sim.step(); ...
SimStep ==
    /\ g_pc = "loop"
    /\ RLt(time_step, accumulator)
    /\ StepBegin(time_step)
    /\ g_pc' = "in_step"
    /\ g_since_get' = g_since_get \cup {"step"}
    /\ UNCHANGED <<store_but_data, table_vars, accumulator, cue_ball_coll,
                   frame_history, g_k>>
    /\ UNCHANGED other_than_game

\* ... accumulator -= step; }
StepReturned ==
    /\ g_pc = "in_step"
    /\ st_pc = "idle"
    /\ accumulator' = RSub(accumulator, step)
    /\ g_calls' = g_calls + 1
    /\ g_pc' = "loop"
    /\ UNCHANGED <<d_data, terminated, store_but_data, table_vars,
                   cue_ball_coll, g_since_get, g_stale_uses, g_removed,
                   g_elapsed, g_frames, g_k>>
    /\ UNCHANGED step_vars
    /\ UNCHANGED other_than_game

\* dist + ball_r < pock_r, for the ball and the pocket of these ids
fully_inside(ball_id, pocket_id) ==
    RLt(RAdd(VLength(VSub(get(ball_id).pos, get(pocket_id).pos)),
             get(ball_id).shape.radius),
        get(pocket_id).shape.radius)

in_a_pocket(ball_id) ==
    \E k \in 1..Len(pockets) : fully_inside(ball_id, pockets[k])

\* The ids the first loop passes to get
ids_marked_by ==
    IF object_balls = <<>> \/ pockets = <<>> THEN {}
    ELSE {object_balls[k].id : k \in 1..Len(object_balls)}
         \cup {pockets[k] : k \in 1..Len(pockets)}

\* Handle pocketed balls, the first loop: is_pocketed is set
MarkPocketed ==
    /\ g_pc = "loop"
    /\ ~RLt(time_step, accumulator)
    /\ ~terminated
    /\ IF ~gets_return(ids_marked_by) THEN GameFatal
       ELSE /\ object_balls' =
                  [k \in 1..Len(object_balls) |->
                      IF in_a_pocket(object_balls[k].id)
                      THEN [object_balls[k] EXCEPT !.is_pocketed = TRUE]
                      ELSE object_balls[k]]
            /\ g_pc' = "remove"
            /\ g_k' = 1
            /\ UNCHANGED <<d_data, terminated, store_but_data, cue_ball,
                           pockets, border_boxes, accumulator, cue_ball_coll,
                           g_since_get, frame_history>>
    /\ UNCHANGED step_vars
    /\ UNCHANGED other_than_game

\* The second loop, at one ball: t.sim.remove(ball.id) if it is pocketed
RemoveIfPocketed ==
    /\ g_pc = "remove"
    /\ g_k <= Len(object_balls)
    /\ ~terminated
    /\ IF object_balls[g_k].is_pocketed
       THEN /\ EraseCall(object_balls[g_k].id)
            /\ g_removed' = Append(g_removed, object_balls[g_k].id)
            /\ g_since_get' = g_since_get \cup {"remove"}
       ELSE UNCHANGED <<store_vars, g_removed, g_since_get>>
    /\ g_k' = g_k + 1
    /\ UNCHANGED <<table_vars, accumulator, cue_ball_coll, g_pc,
                   g_stale_uses, g_elapsed, g_calls, g_frames>>
    /\ UNCHANGED step_vars
    /\ UNCHANGED other_than_game

\* A faulty predicate: erase_if drops nothing.
not_pocketed_any(b) == TRUE

not_pocketed(b) == ~b.is_pocketed

\* std::erase_if(t.object_balls, is_pocketed)
EraseIfPocketed ==
    /\ g_pc = "remove"
    /\ g_k > Len(object_balls)
    /\ ~terminated
    /\ object_balls' = SelectSeq(object_balls, not_pocketed)
    /\ g_pc' = "draw"
    /\ UNCHANGED <<store_vars, cue_ball, pockets, border_boxes, accumulator,
                   cue_ball_coll, g_since_get, frame_history, g_k>>
    /\ UNCHANGED step_vars
    /\ UNCHANGED other_than_game

\* The ids the drawing code and cue_trajectory pass to get
ids_drawn ==
    {cue_ball}
    \cup {pockets[k] : k \in 1..Len(pockets)}
    \cup {object_balls[k].id : k \in 1..Len(object_balls)}
    \cup {border_boxes[k] : k \in 1..Len(border_boxes)}

\* The rest of the frame: the drawing, which reads cue_ball_coll.pos for
\* the trajectory and the cue.  A reference to a slot that is no longer in
\* the vector dangles: reading it is undefined behaviour.
Draw ==
    /\ g_pc = "draw"
    /\ ~terminated
    /\ IF ~gets_return(ids_drawn) THEN GameFatal
       ELSE /\ g_stale_uses' = g_stale_uses \cup g_since_get
            /\ ub' = (ub \/ cue_ball_coll >= Len(d_data))
            /\ g_pc' = "frame"
            /\ UNCHANGED <<d_data, d_data_id, d_id_to_index, d_next,
                           terminated, issued, erased, shadow, last_call,
                           table_vars, accumulator, cue_ball_coll,
                           g_since_get, g_removed, g_elapsed, g_calls,
                           g_frames, g_k>>
    /\ UNCHANGED step_vars
    /\ UNCHANGED other_than_game

NextGame ==
    \/ \E dt \in FrameTimes, shot \in ShotsTaken : BeginFrame(dt, shot)
    \/ SimStep
    \/ Integrate
    \/ GenerateContacts
    \/ SolveContacts
    \/ FixPositions
    \/ Damp
    \/ StepReturned
    \/ MarkPocketed
    \/ RemoveIfPocketed
    \/ EraseIfPocketed
    \/ Draw

\* The frames of scene_game on a table.
SpecGame == InitGame /\ [][NextGame]_vars

(***************************************************************************)
(* Claims about the entity store of id_vector.hpp, under Spec.             *)
(***************************************************************************)
Range(s) == {s[i] : i \in 1..Len(s)}

\* C1: after any sequence of inserts and erases, is_valid(id) is true
\* exactly for the ids insert returned that no erase has removed since; an
\* erase(id) that returns leaves every id other than id as valid or invalid
\* as it was; and data() holds (number of inserts) - (number of erases)
\* elements.
C1_ValidExactlyLive ==
    /\ \A id \in Ids :
          is_valid(id) <=> (id \in Range(issued) /\ id \notin Range(erased))
    /\ (last_call.op = "erase" /\ ~terminated) =>
          \A id \in Ids \ {last_call.id} :
             is_valid(id) <=> map_contains(last_call.pre.map, id)
    /\ Len(d_data) = Len(issued) - Len(erased)

\* C1 witness: an id has been erased while another one is still live.
C1_Witness ==
    /\ last_call.op = "erase"
    /\ ~terminated
    /\ Len(erased) >= 1
    /\ Len(d_data) >= 1

\* C2: get(id) on a live id returns the element inserted under that id, as
\* last written through get, whichever elements have been erased (the last
\* one, the only one, or one in the middle).
C2_GetResolvesOwnElement ==
    \A id \in DOMAIN shadow :
       /\ is_valid(id)
       /\ index_in_bounds(id)
       /\ get(id) = shadow[id]
       /\ d_data_id[map_index(d_id_to_index, id) + 1] = id

\* C2 witness: an element other than the last one has been erased, so the
\* last element was moved into its slot, and the moved element differs
\* from the erased one.
C2_Witness ==
    /\ last_call.op = "erase"
    /\ ~terminated
    /\ Len(last_call.pre.data) >= 2
    /\ last_call.pre.map[last_call.id] + 1 < Len(last_call.pre.data)
    /\ last_call.pre.data[last_call.pre.map[last_call.id] + 1]
          # last_call.pre.data[Len(last_call.pre.data)]

\* C3: insert returns strictly increasing ids starting at 0, so no id is
\* returned twice and an erased id is never issued again.
C3_IdsNeverReused ==
    /\ Len(issued) >= 1 => issued[1] = 0
    /\ \A i, j \in 1..Len(issued) : i < j => issued[i] < issued[j]
    /\ last_call.op = "insert" => last_call.id \notin Range(erased)

\* C3 witness: an insert that follows an erase, into a store that had
\* fewer elements than ids issued.
C3_Witness ==
    /\ last_call.op = "insert"
    /\ Len(erased) >= 1
    /\ Len(last_call.pre.data) < last_call.pre.next

\* C4: erase(id) or get(id) with an id that is not valid (never issued, or
\* erased before) ends the process through the failed assertion and leaves
\* every field of the store as it was, without any out-of-bounds access.
C4_InvalidIdIsFatal ==
    (/\ last_call.op \in {"erase", "get", "modify"}
     /\ ~map_contains(last_call.pre.map, last_call.id))
    => (terminated /\ ~ub /\ Store = last_call.pre)

\* C4 witness: a second erase of an id that was erased before.
C4_Witness ==
    /\ last_call.op = "erase"
    /\ last_call.id \in Range(erased)
    /\ ~map_contains(last_call.pre.map, last_call.id)
    /\ terminated

(***************************************************************************)
(* Claims about the id_vector of simulation.hpp, under SpecSim.            *)
(***************************************************************************)
\* C5: every id removed by remove_collider is invalid afterwards, so that
\* a later get or a second remove_collider of it fails its assertion: it
\* terminates with the store untouched, never reading or swapping another
\* id's element or a slot past the end.
C5_RemovedIdIsInvalid ==
    /\ \A id \in sim_removed : ~sim_is_valid(id)
    /\ (sim_last.op \in {"get", "remove"} /\ sim_last.id \in sim_last.removed)
       => (sim_terminated /\ ~sim_ub /\ SimStore = sim_last.pre)

(***************************************************************************)
(* Claims about collision_test, under SpecCollide.                         *)
(***************************************************************************)
CtDone == ct_res # Pending
CtOneDynamic == is_dynamic(ct_a) \/ is_dynamic(ct_b)
CtKinds(ka, kb) == ct_a.shape.kind = ka /\ ct_b.shape.kind = kb

\* C6: when neither a nor b is dynamic, collision_test returns no
\* collision and reaches no assertion, for every pair of shapes and
\* positions.
C6_NoDynamicNoCollision ==
    (CtDone /\ ~is_dynamic(ct_a) /\ ~is_dynamic(ct_b))
    => ct_res = NoCollision

\* C6 witness: a static box tested against an attractor box, a pair whose
\* narrow-phase function would assert.
C6_Witness ==
    /\ CtDone
    /\ CtKinds("box", "box")
    /\ ct_a.body.kind = "static"
    /\ ct_b.body.kind = "attractor"
    /\ ct_res = NoCollision

\* C7: for two circles, at least one dynamic, with centre distance d and
\* radii ra, rb: a contact is reported iff d < ra + rb; its penetration is
\* ra + rb - d; and for d > 1e-6 its normal is the unit vector from a's
\* centre to b's, the test with the arguments swapped reporting the
\* opposite normal.
C7_CircleCircleContact ==
    (CtDone /\ CtKinds("circle", "circle") /\ CtOneDynamic) =>
       LET delta == V(RSub(ct_b.pos.x, ct_a.pos.x),
                      RSub(ct_b.pos.y, ct_a.pos.y))
           dd == RAdd(RMul(delta.x, delta.x), RMul(delta.y, delta.y))
           rsum == RAdd(ct_a.shape.radius, ct_b.shape.radius)
           \* the distance that the reported penetration stands for
           d == RSub(rsum, ct_res.penetration)
           swapped == collision_test(ct_b, ct_a)
       IN /\ ct_res.kind \in {"hit", "none"}
          /\ ct_res.kind = "hit" <=> (RLt(R0, rsum) /\ RLt(dd, RMul(rsum, rsum)))
          /\ ct_res.kind = "hit" =>
                /\ RLe(R0, d)
                /\ RMul(d, d) = dd
                /\ RLt(Eps6, d) =>
                      /\ VScale(ct_res.normal, d) = delta
                      /\ VDot(ct_res.normal, ct_res.normal) = R1
                      /\ swapped.kind = "hit"
                      /\ swapped.penetration = ct_res.penetration
                      /\ swapped.normal = VNeg(ct_res.normal)

\* C7 witness: a contact between two circles whose centres differ in both
\* coordinates.
C7_Witness ==
    /\ CtDone
    /\ CtKinds("circle", "circle")
    /\ CtOneDynamic
    /\ ct_res.kind = "hit"
    /\ ct_res.normal.x.n # 0
    /\ ct_res.normal.y.n # 0
    /\ ct_res.penetration.n > 0

\* The centre of circle c lies in box b (its boundary included), and c has
\* a positive radius.
CircleInsideBox(c, b) ==
    /\ c.shape.kind = "circle"
    /\ b.shape.kind = "box"
    /\ RLt(R0, c.shape.radius)
    /\ RLe(RMul(RI(2), RSub(b.pos.x, c.pos.x)), b.shape.width)
    /\ RLe(RMul(RI(2), RSub(c.pos.x, b.pos.x)), b.shape.width)
    /\ RLe(RMul(RI(2), RSub(b.pos.y, c.pos.y)), b.shape.height)
    /\ RLe(RMul(RI(2), RSub(c.pos.y, b.pos.y)), b.shape.height)

\* C8: with at least one dynamic body, collision_test ends the process in
\* assert_that(false) on a box-box pair, on a line-line pair, and on a
\* circle-box pair (in either order) whose circle has a positive radius
\* and its centre inside the box; it returns neither a contact nor "no
\* collision".
C8_UnhandledGeometryIsFatal ==
    (/\ CtDone
     /\ CtOneDynamic
     /\ \/ CtKinds("box", "box")
        \/ CtKinds("line", "line")
        \/ CircleInsideBox(ct_a, ct_b)
        \/ CircleInsideBox(ct_b, ct_a))
    => ct_res = Fatal

\* C8 witness: a static box tested against a dynamic circle whose centre
\* is inside the box but not at its centre.
C8_Witness ==
    /\ CtDone
    /\ CircleInsideBox(ct_b, ct_a)
    /\ is_dynamic(ct_b)
    /\ ct_a.pos # ct_b.pos
    /\ ct_res = Fatal

(***************************************************************************)
(* Claims about ray_cast, under SpecRay.                                   *)
(***************************************************************************)
RayDone == ray_res # Pending

\* The point ray_r.start + t * ray_r.dir.
RayPoint(t) == VAdd(ray_r.start, VScale(ray_r.dir, t))

\* |O + t D - C|^2 = r^2
OnCircle(t, c) ==
    LET v == VSub(RayPoint(t), c.centre)
    IN VDot(v, v) = RMul(c.radius, c.radius)

\* The parameters t >= 0 at which the ray meets the circle.  With integer
\* inputs and a discriminant that is a square, every root of the quadratic
\* is n / dot(D, D) for an integer n, |n| <= 2|B| + dot(D, D) * r.
CircleHits(c) ==
    LET dd == VDot(ray_r.dir, ray_r.dir).n
        B == VDot(VSub(ray_r.start, c.centre), ray_r.dir).n
    IN {t \in {Rat(n, dd) : n \in 0..(2 * Abs(B) + dd * c.radius.n)} :
           OnCircle(t, c)}

\* C9: ray_cast(ray, circle) returns the smallest t >= 0 with
\* |O + t D - C|^2 = r^2 when there is one (origin outside, on or inside
\* the circle), and none otherwise.
C9_NearestNonNegativeHit ==
    (RayDone /\ ray_target.kind = "circle") =>
       IF CircleHits(ray_target) = {}
       THEN ray_res = RayNone
       ELSE /\ ray_res.kind = "some"
            /\ ray_res.t.kind = "fin"
            /\ ray_res.t.v \in CircleHits(ray_target)
            /\ \A t \in CircleHits(ray_target) : RLe(ray_res.t.v, t)

\* The four boundary segments of a box: top, right, bottom, left.
box_edges(b) ==
    <<line(box_tl(b), box_tr(b)), line(box_tr(b), box_br(b)),
      line(box_br(b), box_bl(b)), line(box_bl(b), box_tl(b))>>

\* Point p lies on the boundary of box b.
OnBoxBoundary(p, b) ==
    LET dx == RSub(p.x, b.centre.x)
        dy == RSub(p.y, b.centre.y)
        ax == RMul(RI(2), Rat(Abs(dx.n), dx.d))
        ay == RMul(RI(2), Rat(Abs(dy.n), dy.d))
    IN \/ ax = b.width /\ RLe(ay, b.height)
       \/ ay = b.height /\ RLe(ax, b.width)

\* C10: ray_cast(ray, box) returns the minimum hit distance over the top,
\* right, bottom and left edges of the box, so that every distance it
\* returns is to a point of the box's boundary.
C10_BoxIsItsFourEdges ==
    (RayDone /\ ray_target.kind = "box") =>
       /\ ray_res = ray_cast_lines(ray_r, box_edges(ray_target))
       /\ ray_res.kind = "some" =>
             OnBoxBoundary(RayPoint(ray_res.t.v), ray_target)

(***************************************************************************)
(* Claims about simulation::step on prepared scenes, under SpecScene.      *)
(***************************************************************************)
\* The call of step has returned.
Returned == st_pc = "idle" /\ st_steps >= 1

\* The phases run so far are 1, 2, 3, 4, 5, 1, 2, ... in this order.
PhasesInOrder ==
    \A k \in 1..Len(st_phases) : st_phases[k] = ((k - 1) % 5) + 1

SameButMotion(now, begun) ==
    /\ now.shape = begun.shape
    /\ now.body.kind = begun.body.kind
    /\ is_dynamic(begun) => now.body.mass = begun.body.mass
    /\ ~is_dynamic(begun) => now = begun

FrameKept ==
    /\ Len(d_data) = Len(st_begun)
    /\ \A k \in 1..Len(st_begun) : SameButMotion(d_data[k], st_begun[k])

\* C12: with every dynamic body of mass > 0, step changes nothing but the
\* position and the velocity of dynamic bodies: after each phase of each
\* substep, up to the return, the static and the attractor bodies are as
\* they were at the call, every body has its shape, its kind and its mass,
\* and the array has the same bodies under the same ids in the same order.
C12_StepMovesOnlyDynamicBodies ==
    [][st_pc # "idle" =>
          /\ FrameKept'
          /\ d_data_id' = d_data_id
          /\ d_id_to_index' = d_id_to_index
          /\ d_next' = d_next
          /\ ~st_nan']_vars

\* C12 witness: in the last substep of a call a ball is in contact with a
\* static body, next to another body, and has been moved.
C12_Witness ==
    /\ st_pc = "damp"
    /\ st_i = 19
    /\ Len(d_data) >= 3
    /\ \E t \in st_touched : ~is_dynamic(d_data[t[1] + 1])
                               \/ ~is_dynamic(d_data[t[2] + 1])
    /\ \E k \in 1..Len(d_data) : d_data[k].pos # st_begun[k].pos
    /\ \A k \in 1..Len(d_data) :
          is_dynamic(d_data[k]) => RLt(R0, d_data[k].body.mass)

(***************************************************************************)
(* Claims about the attraction of phase 2, under SpecScene.                *)
(***************************************************************************)
\* The pairs (attractor, dynamic body) of indices that overlap.  Phase 2
\* moves no body, so the positions after it are those it has tested.
PocketRange ==
    {q \in (0..(Len(d_data) - 1)) \X (0..(Len(d_data) - 1)) :
        /\ is_attractor(d_data[q[1] + 1])
        /\ is_dynamic(d_data[q[2] + 1])
        /\ collision_test(d_data[q[1] + 1], d_data[q[2] + 1]).kind
              = "hit"}

\* From the dynamic body to the attractor's centre
toward_attractor(q) == VSub(d_data[q[1] + 1].pos, d_data[q[2] + 1].pos)

apart(q) == RLt(Eps6, VLength(toward_attractor(q)))

overlap(q) ==
    RSub(RAdd(d_data[q[1] + 1].shape.radius, d_data[q[2] + 1].shape.radius),
         VLength(toward_attractor(q)))

PullsOf(q) ==
    {k \in 1..Len(st_pulls) : st_pulls[k].by = q[1] /\ st_pulls[k].on = q[2]}

NoContactOf(q) ==
    \A k \in 1..Len(st_contacts) :
       {st_contacts[k].a, st_contacts[k].b} # {q[1], q[2]}

\* (20 * penetration)^2 * dt along the unit vector u
increment_along(u, q) ==
    VScale(VScale(u, RMul(RMul(overlap(q), RI(20)),
                          RMul(overlap(q), RI(20)))), st_dt)

PulledToward(q) ==
    /\ apart(q)
    /\ NoContactOf(q)
    /\ Cardinality(PullsOf(q)) = 1
    /\ \A k \in PullsOf(q) :
          /\ st_pulls[k].inc =
                increment_along(VDivS(toward_attractor(q),
                                      VLength(toward_attractor(q))), q)
          /\ RLt(R0, VDot(st_pulls[k].inc, toward_attractor(q)))

\* With the centres within 1e-6 of each other the normal is (1, 0) from the
\* first of the pair to the second.
PulledAlongX(q) ==
    /\ NoContactOf(q)
    /\ Cardinality(PullsOf(q)) = 1
    /\ \A k \in PullsOf(q) :
          st_pulls[k].inc =
             increment_along(IF q[1] < q[2] THEN VI(-1, 0) ELSE VI(1, 0), q)

\* C13 as stated: in every substep, for each overlapping pair of an
\* attractor and a dynamic body, no contact is added to the list and the
\* velocity of the dynamic body receives an increment of magnitude
\* (20 * penetration)^2 * dt directed from the dynamic body toward the
\* attractor's centre, whichever of the two is stored first.
C13_PullTowardAttractor ==
    st_pc = "solve" => \A q \in PocketRange : PulledToward(q)

\* C13, amended: so it is for each overlapping pair whose centres are more
\* than 1e-6 apart; for a pair whose centres are not, no contact is added
\* and the increment has that magnitude along (-1, 0) when the attractor is
\* stored first and along (1, 0) when it is stored second.
C13_PullTowardAttractorWhenApart ==
    st_pc = "solve" =>
       \A q \in PocketRange :
          IF apart(q) THEN PulledToward(q) ELSE PulledAlongX(q)

\* C13 witness: one pocket stored after a ball and before another one has
\* pulled both in this substep, each with a nonzero increment.
C13_Witness ==
    /\ st_pc = "solve"
    /\ \E q1 \in PocketRange, q2 \in PocketRange :
          /\ q1[1] < q1[2]
          /\ q2[1] > q2[2]
          /\ apart(q1) /\ apart(q2)
          /\ \A k \in PullsOf(q1) \cup PullsOf(q2) :
                st_pulls[k].inc # VI(0, 0)
          /\ PullsOf(q1) # {}

(***************************************************************************)
(* Claims about the attractor branches of phase 2, under SpecTable.        *)
(***************************************************************************)
\* The pairs (i, j), i < j, the loops of phase 2 visit
PairsVisited ==
    {q \in (0..(Len(d_data) - 1)) \X (0..(Len(d_data) - 1)) : q[1] < q[2]}

TestOf(q) == collision_test(d_data[q[1] + 1], d_data[q[2] + 1])

\* What the branches of the loop body need of the pair q when the test has
\* returned a result
BranchesSafe(q) ==
    /\ ~(is_attractor(d_data[q[1] + 1]) /\ is_attractor(d_data[q[2] + 1]))
    /\ is_attractor(d_data[q[1] + 1]) => is_dynamic(d_data[q[2] + 1])
    /\ is_attractor(d_data[q[2] + 1]) => is_dynamic(d_data[q[1] + 1])

\* C21: whenever collision_test returns a result for a pair in which
\* exactly one body is an attractor, the other body is dynamic, so the
\* std::get<dynamic_body> of the attractor branches never fails, whatever
\* the mix of static, attractor and dynamic bodies; and no pair of two
\* attractors has a result.
C21_AttractorBranchReadsDynamicBody ==
    /\ st_ended # "bad_variant_access"
    /\ st_pc = "contacts" =>
          \A q \in PairsVisited : TestOf(q).kind = "hit" => BranchesSafe(q)

\* C21 witness: phase 2 has run over a pocket that overlaps a static line
\* and a ball, and has pulled the ball.
C21_Witness ==
    /\ st_pc = "solve"
    /\ st_pulls # <<>>
    /\ \E q \in PairsVisited \cup {<<r[2], r[1]>> : r \in PairsVisited} :
          /\ is_attractor(d_data[q[1] + 1])
          /\ d_data[q[2] + 1].body.kind = "static"
          /\ d_data[q[2] + 1].shape.kind = "line"
          /\ collision_circle_line(d_data[q[1] + 1].pos, d_data[q[2] + 1].pos,
                                   d_data[q[1] + 1].shape,
                                   d_data[q[2] + 1].shape).kind = "hit"

(***************************************************************************)
(* Claims about redundant contacts in solve_contacts, under SpecChain.     *)
(***************************************************************************)
\* The normal of contact c as seen from the body at index k
normal_from(c, k) == IF c.a = k THEN c.normal ELSE VNeg(c.normal)

other_body(c, k) == IF c.a = k THEN c.b ELSE c.a

\* The contacts of this substep are two contacts of the dynamic body at
\* index k with two different static bodies, of one normal and one
\* penetration.
RedundantAt(k) ==
    /\ Len(st_contacts) = 2
    /\ is_dynamic(d_data[k + 1])
    /\ \A i \in 1..2 :
          /\ k \in {st_contacts[i].a, st_contacts[i].b}
          /\ d_data[other_body(st_contacts[i], k) + 1].body.kind = "static"
    /\ other_body(st_contacts[1], k) # other_body(st_contacts[2], k)
    /\ normal_from(st_contacts[1], k) = normal_from(st_contacts[2], k)
    /\ st_contacts[1].penetration = st_contacts[2].penetration

Redundant == \E k \in 0..(Len(d_data) - 1) : RedundantAt(k)

SingularSystem(A) == RSub(RMul(A[1][1], A[2][2]), RMul(A[1][2], A[2][1])) = R0

\* After the round on the first pivot, the second pivot is one the loop
\* skips and b[1] is 0.
SecondPivotSkipped(Ab) ==
    /\ RLt(RAbs(Ab[1][2][2]), Eps8)
    /\ Ab[2][2] = R0

SolvedAsOne ==
    /\ SingularSystem(constraint_matrix(d_data, st_contacts))
    /\ ~RLt(RAbs(constraint_matrix(d_data, st_contacts)[1][1]), Eps8)
    /\ SecondPivotSkipped(
          eliminate_pivot(constraint_matrix(d_data, st_contacts),
                          bias_vector(d_data, st_contacts), 1))
    /\ d_data' = solve_contacts(d_data, <<st_contacts[1]>>)
    /\ d_data' = solve_contacts(d_data, <<st_contacts[2]>>)

\* C22: when one dynamic body has two simultaneous contacts with two
\* different static bodies that have the same normal, penetration and
\* approach velocity, solve_contacts builds a singular 2x2 system, skips
\* the second pivot, which is zero with a zero right-hand side, and changes
\* the velocity of the dynamic body as a single such contact would, in
\* every storage order of the three bodies.
C22_RedundantContactsSolvedAsOne ==
    [][(st_pc = "solve" /\ Redundant) => SolvedAsOne]_vars

\* C22 witness: a ball stored between the two segments it touches has been
\* turned back by the solver from the joint it was moving into.
C22_Witness ==
    /\ st_pc = "fix"
    /\ Len(d_data) = 3
    /\ RedundantAt(1)
    /\ RLt(st_begun[2].body.vel.y, R0)
    /\ RLt(R0, d_data[2].body.vel.y)

(***************************************************************************)
(* Claims about the frame loop of scene_game, under SpecGame.              *)
(***************************************************************************)
AfterStepLoop == g_pc \in {"remove", "draw", "frame"}

\* C23: each frame adds its time dt >= 0 to the accumulator and then calls
\* sim.step() while the accumulator exceeds the time step, taking one fixed
\* interval off per call; so after the loop of every frame
\* 0 <= accumulator <= time step, and at all times (number of calls of step
\* returned) * interval + accumulator is the sum of the frame times.
C23_AccumulatorBoundedAndConserved ==
    /\ AfterStepLoop =>
          RLe(R0, accumulator) /\ RLe(accumulator, time_step)
    /\ g_pc = "in_step" => RLt(time_step, accumulator)
    /\ RAdd(RMul(RI(g_calls), step), accumulator) = g_elapsed

\* C23 witness: a frame whose loop has called step, for the second time in
\* the game, and has left exactly one time step in the accumulator.
C23_Witness ==
    /\ g_pc = "draw"
    /\ g_calls = 2
    /\ "step" \in g_since_get
    /\ accumulator = time_step
    /\ g_elapsed = Rat(1, 20)

\* C24: no reference obtained from t.sim.get(...) is used after a later
\* t.sim.step() or t.sim.remove(...) of the same frame: every use of a body
\* reference follows a fresh get with no step and no remove in between.
C24_NoUseAcrossStepOrRemove == g_stale_uses = {}

(***************************************************************************)
(* Claims about the pocketing of scene_game, under SpecGame.               *)
(***************************************************************************)
BallIds == {object_balls[k].id : k \in 1..Len(object_balls)}
\* The object balls the table was set up with
RackIds == {1, 2, 3}
OtherIds == {cue_ball} \cup Range(pockets) \cup Range(border_boxes)

\* In the removal loop: the balls it has passed are marked exactly when
\* they have been removed, the balls ahead exactly when they lie fully
\* inside a pocket.
RemovalLoopOnMarked ==
    \A k \in 1..Len(object_balls) :
       IF k < g_k
       THEN /\ object_balls[k].is_pocketed <=> ~is_valid(object_balls[k].id)
            /\ is_valid(object_balls[k].id) =>
                  ~in_a_pocket(object_balls[k].id)
       ELSE /\ is_valid(object_balls[k].id)
            /\ object_balls[k].is_pocketed <=>
                  in_a_pocket(object_balls[k].id)

\* Out of the removal loop: the balls held are the ones not removed, none
\* is marked, and after the loop of a frame none lies inside a pocket.
BallsHeldAreOnTable ==
    /\ \A id \in BallIds : is_valid(id)
    /\ \A k \in 1..Len(object_balls) : ~object_balls[k].is_pocketed
    /\ g_pc = "draw" => \A id \in BallIds : ~in_a_pocket(id)

\* C25: in each frame every object ball lying fully inside some pocket is
\* removed from the simulation exactly once and dropped from object_balls
\* in that frame, the balls not inside a pocket are kept, and the pockets,
\* the borders and the cue ball are never removed; so every id held in
\* object_balls, pockets, border_boxes and cue_ball is valid at every
\* sim.get and sim.remove, and the assertion on an invalid id is never
\* reached.
C25_PocketedBallsRemovedOnce ==
    /\ ~terminated /\ ~ub /\ g_pc # "ended"
    /\ Range(erased) = Range(g_removed)
    /\ Cardinality(Range(g_removed)) = Len(g_removed)
    /\ Range(g_removed) \subseteq RackIds
    /\ \A id \in RackIds : is_valid(id) <=> id \notin Range(g_removed)
    /\ \A id \in OtherIds : is_valid(id)
    /\ BallIds \subseteq RackIds
    /\ Cardinality(BallIds) = Len(object_balls)
    /\ IF g_pc = "remove" THEN RemovalLoopOnMarked
       ELSE BallsHeldAreOnTable /\ BallIds = RackIds \ Range(g_removed)

\* C25 witness: the ball that began inside a pocket has been removed in one
\* frame and the ball the pocket has pulled in in a later one; the third
\* ball is kept, and so is the cue ball.
C25_Witness ==
    /\ g_pc = "draw"
    /\ g_removed = <<1, 2>>
    /\ BallIds = {3}
    /\ g_frames >= 2
    /\ g_calls >= 1
    /\ is_valid(cue_ball)

(***************************************************************************)
(* Claims about a body on its own, under SpecLone.                         *)
(***************************************************************************)
lone_vel == d_data[1].body.vel
lone_pos == d_data[1].pos
AtRest == lone_vel = VI(0, 0)

\* The speed does not grow: neither the square of its length nor a
\* component of the velocity.
SpeedNotIncreased ==
    /\ RLe(VDot(lone_vel', lone_vel'), VDot(lone_vel, lone_vel))
    /\ RLe(RAbs(lone_vel'.x), RAbs(lone_vel.x))
    /\ RLe(RAbs(lone_vel'.y), RAbs(lone_vel.y))

\* Phase 5 stops the body exactly when its damped speed is below 0.01
StoppedBelowFloor ==
    st_pc = "damp" =>
       IF RLt(VLength(VScale(lone_vel, damping(st_dt))), velocity_floor)
       THEN AtRest'
       ELSE lone_vel' = VScale(lone_vel, damping(st_dt)) /\ ~AtRest'

StaysAtRest == AtRest => (AtRest' /\ lone_pos' = lone_pos)

\* C14: a lone dynamic body stepped repeatedly: its speed never increases,
\* its velocity is set to exactly (0, 0) in the first substep whose damped
\* speed is below 0.01, it eventually has velocity (0, 0), and once its
\* velocity is (0, 0) every further step leaves its velocity and its
\* position unchanged.
C14_LoneBodyComesToRest ==
    /\ [][SpeedNotIncreased /\ StoppedBelowFloor /\ StaysAtRest]_vars
    /\ <>[]AtRest

\* C14 witness: a body that was moving faster than the floor has been
\* stopped by phase 5, some frames after it set out.
C14_Witness ==
    /\ AtRest
    /\ st_pc = "integrate"
    /\ st_begun # <<>>
    /\ st_begun[1].body.vel # VI(0, 0)
    /\ RLt(Rat(1, 200), VLength(lone_pos))

(***************************************************************************)
(* Claims about a head-on collision, under SpecScene.                      *)
(***************************************************************************)
\* From the first body to the second, as the call began
begun_apart == VSub(st_begun[2].pos, st_begun[1].pos)

\* When step was called there were two dynamic circles of equal mass with
\* equal and opposite velocities along the line of their centres, closing.
HeadOnBegun ==
    /\ Len(st_begun) = 2
    /\ \A k \in 1..2 : is_dynamic(st_begun[k])
                         /\ st_begun[k].shape.kind = "circle"
    /\ st_begun[1].body.mass = st_begun[2].body.mass
    /\ st_begun[1].body.vel = VNeg(st_begun[2].body.vel)
    /\ cross_2d(st_begun[1].body.vel, begun_apart) = R0
    /\ RLt(R0, VDot(st_begun[1].body.vel, begun_apart))

\* v, the speed of each as the call began
approach_speed == VLength(st_begun[1].body.vel)

\* The speed at which the second body leaves the first, along the line of
\* centres
separation_speed ==
    VDot(VSub(d_data[2].body.vel, d_data[1].body.vel),
         VDivS(begun_apart, VLength(begun_apart)))

\* Each moves away from the other.
DirectionsExchanged ==
    /\ RLt(VDot(d_data[1].body.vel, begun_apart), R0)
    /\ RLt(R0, VDot(d_data[2].body.vel, begun_apart))

CollidedInStep == Returned /\ HeadOnBegun /\ <<0, 1>> \in st_touched

SeparationWithin(lo, hi) ==
    /\ RLe(RMul(lo, RMul(RI(2), approach_speed)), separation_speed)
    /\ RLe(separation_speed, RMul(hi, RMul(RI(2), approach_speed)))

\* C15 as stated: two dynamic circles of equal mass approaching head-on
\* with equal and opposite velocity v that come into contact during one
\* step of 1/60 s have, after that step, exchanged the directions of their
\* velocities, and separate at a relative speed within
\* [0.79 * 2v, 0.81 * 2v].
C15_HeadOnSeparation ==
    CollidedInStep =>
       DirectionsExchanged /\ SeparationWithin(Rat(79, 100), Rat(81, 100))

\* The speed each body would have after the step had the floor of phase 5
\* not been there is at least 0.78 v; this tells that it is above the floor.
ClearOfFloor == RLe(velocity_floor, RMul(Rat(78, 100), approach_speed))

\* C15, amended: if 0.78 v >= 0.01, the directions are exchanged and the
\* relative speed of separation is within [0.78 * 2v, 0.80 * 2v] (0.8 times
\* the damping of the 20 substeps, exp(-1.1 / 60) = 0.9818); if v is so
\* small that 0.8 v < 0.01, phase 5 stops both bodies.
C15_HeadOnSeparationDamped ==
    CollidedInStep =>
       /\ ClearOfFloor =>
             /\ DirectionsExchanged
             /\ SeparationWithin(Rat(78, 100), Rat(80, 100))
       /\ RLt(RMul(Rat(8, 10), approach_speed), velocity_floor) =>
             \A k \in 1..2 : d_data[k].body.vel = VI(0, 0)

\* C15 witness: two balls that began a step apart and closing at speed 1
\* each have touched in it and are separating as it returns.
C15_Witness ==
    /\ CollidedInStep
    /\ approach_speed = R1
    /\ ClearOfFloor
    /\ DirectionsExchanged
    /\ RLt(RI(2), VLength(begun_apart))

(***************************************************************************)
(* Claims about what erase relocates, under Spec.                          *)
(***************************************************************************)
\* The id stored in the last slot before the last call.
last_before == last_call.pre.ids[Len(last_call.pre.ids)]

\* The last call was an erase that returned.
ErasedOne ==
    /\ last_call.op = "erase"
    /\ ~terminated
    /\ map_contains(last_call.pre.map, last_call.id)

\* id has the index and the stored value it had before the last call.
KeptInPlace(id) ==
    /\ d_id_to_index[id] = last_call.pre.map[id]
    /\ d_data[d_id_to_index[id] + 1] = last_call.pre.data[last_call.pre.map[id] + 1]
    /\ d_data_id[d_id_to_index[id] + 1] = id

\* id has moved into the slot of the erased id, with its stored value.
MovedIntoErasedSlot(id) ==
    /\ d_id_to_index[id] = last_call.pre.map[last_call.id]
    /\ d_data[d_id_to_index[id] + 1] = last_call.pre.data[last_call.pre.map[id] + 1]
    /\ d_data_id[d_id_to_index[id] + 1] = id

\* C16: erase(id) relocates at most one other element: only the element
\* that was stored last changes index, moving into the erased slot, and
\* every other live id keeps its index and its stored value; as long as no
\* erase has happened, data() lists the elements in insertion order.
C16_EraseRelocatesOnlyLast ==
    /\ ErasedOne =>
          \A id \in DOMAIN d_id_to_index :
             IF id = last_before THEN MovedIntoErasedSlot(id)
             ELSE KeptInPlace(id)
    /\ (Len(erased) = 0 /\ ~terminated) =>
          /\ d_data_id = issued
          /\ \A i \in 1..Len(issued) : d_data[i] = shadow[issued[i]]

\* C16 witness: the first of three elements has been erased, so that the
\* last one moved and the middle one stayed.
C16_Witness ==
    /\ ErasedOne
    /\ Len(last_call.pre.data) = 3
    /\ last_call.pre.map[last_call.id] = 0
    /\ Len(d_data) = 2
    /\ d_data_id[1] = last_before

(***************************************************************************)
(* Claims about fix_positions, under SpecFix.                              *)
(***************************************************************************)
\* fix_positions has returned.
Fixed == st_pc = "damp"

\* The contact under test
fixed_contact == st_contacts[Len(st_contacts)]

\* How far body k of the pair has been moved by the call
displaced(k) == VSub(d_data[k + 1].pos, st_begun[k + 1].pos)

\* inv / (inv_a + inv_b) * 0.4 * p * n
share_of(inv, c) ==
    VScale(c.normal,
           RMul(RMul(RDiv(inv, RAdd(inv_mass(st_begun[c.a + 1]),
                                   inv_mass(st_begun[c.b + 1]))),
                     Rat(4, 10)),
                c.penetration))

DisplacedByShares(c) ==
    /\ displaced(c.a) = VSub(VI(0, 0), share_of(inv_mass(st_begun[c.a + 1]), c))
    /\ displaced(c.b) = share_of(inv_mass(st_begun[c.b + 1]), c)
    /\ VSub(displaced(c.b), displaced(c.a))
          = VScale(c.normal, RMul(Rat(4, 10), c.penetration))

StaticStaysPut(c) ==
    /\ ~is_dynamic(st_begun[c.a + 1]) =>
          /\ displaced(c.a) = VI(0, 0)
          /\ displaced(c.b) = VScale(c.normal, RMul(Rat(4, 10), c.penetration))
    /\ ~is_dynamic(st_begun[c.b + 1]) =>
          /\ displaced(c.b) = VI(0, 0)
          /\ displaced(c.a)
                = VSub(VI(0, 0),
                       VScale(c.normal, RMul(Rat(4, 10), c.penetration)))

OnlyPositionsChanged ==
    /\ Len(d_data) = Len(st_begun)
    /\ \A k \in 1..Len(d_data) :
          /\ d_data[k].body = st_begun[k].body
          /\ d_data[k].shape = st_begun[k].shape

\* C17: fix_positions displaces A by -(inv_a/(inv_a+inv_b)) * 0.4 * p * n
\* and B by +(inv_b/(inv_a+inv_b)) * 0.4 * p * n for a contact of positive
\* penetration p and normal n, which separates the pair by 0.4 * p along
\* n; a static body is not displaced and the dynamic one takes the whole
\* 0.4 * p; a contact with penetration <= 0 displaces nothing.
C17_FixPositionsSharesByInverseMass ==
    Fixed =>
       /\ OnlyPositionsChanged
       /\ ~st_nan
       /\ IF RLt(R0, fixed_contact.penetration)
          THEN DisplacedByShares(fixed_contact) /\ StaticStaysPut(fixed_contact)
          ELSE d_data = st_begun

\* C17 witness: a contact of positive penetration between a static body
\* and a dynamic one, after a contact without penetration was skipped.
C17_Witness ==
    /\ Fixed
    /\ Len(st_contacts) = 2
    /\ RLt(R0, fixed_contact.penetration)
    /\ ~is_dynamic(st_begun[1])
    /\ is_dynamic(st_begun[2])
    /\ displaced(1) # VI(0, 0)

(***************************************************************************)
(* Claims about the contact list of a substep, under SpecTable.            *)
(***************************************************************************)
\* The list is the one solve_contacts and fix_positions are about to get.
ContactsPassed == st_pc \in {"solve", "fix"}

BetweenSolidBodies(c) ==
    /\ c.a < c.b
    /\ c.b < Len(d_data)
    /\ ~is_attractor(d_data[c.a + 1])
    /\ ~is_attractor(d_data[c.b + 1])
    /\ is_dynamic(d_data[c.a + 1]) \/ is_dynamic(d_data[c.b + 1])

PairsListedOnce ==
    \A k, l \in 1..Len(st_contacts) :
       (k # l) => {st_contacts[k].a, st_contacts[k].b}
                     # {st_contacts[l].a, st_contacts[l].b}

MassesPositive ==
    \A k \in 1..Len(d_data) :
       is_dynamic(d_data[k]) => RLt(R0, d_data[k].body.mass)

InverseMassesAddUp(c) ==
    RLt(R0, RAdd(inv_mass(d_data[c.a + 1]), inv_mass(d_data[c.b + 1])))

\* C18: every contact passed to solve_contacts and fix_positions is
\* between two bodies that are not attractors and of which at least one is
\* dynamic, with index a < b, each unordered pair at most once; so, the
\* masses being positive, the inverse masses of a contact add up to more
\* than 0 (fix_positions never divides by zero) and the contact's own
\* diagonal entry of the constraint matrix is positive when it is built.
C18_ContactsBetweenSolidBodies ==
    /\ ~st_nan
    /\ ContactsPassed =>
          /\ PairsListedOnce
          /\ \A k \in 1..Len(st_contacts) :
                /\ BetweenSolidBodies(st_contacts[k])
                /\ MassesPositive => InverseMassesAddUp(st_contacts[k])
                /\ (MassesPositive /\ st_pc = "solve") =>
                      RLt(R0, matrix_entry(d_data, st_contacts[k],
                                           st_contacts[k]))

\* C18 witness: a substep in which a ball in contact with another body
\* was also in the range of a pocket, which is not in the list.
C18_Witness ==
    /\ st_pc = "solve"
    /\ Len(st_contacts) >= 1
    /\ st_pulls # <<>>
    /\ \E k \in 1..Len(d_data) : is_attractor(d_data[k])
    /\ MassesPositive

(***************************************************************************)
(* Claims about ray_cast(ray, line), under SpecRay.                        *)
(***************************************************************************)
\* The ray direction is parallel to the segment l.
Parallel(l) == cross_2d(ray_r.dir, VSub(l.end, l.start)) = R0

\* Point p lies on the segment l.
OnSegment(p, l) ==
    /\ cross_2d(VSub(p, l.start), VSub(l.end, l.start)) = R0
    /\ RLe(R0, VDot(VSub(p, l.start), VSub(l.end, l.start)))
    /\ RLe(VDot(VSub(p, l.start), VSub(l.end, l.start)),
           VDot(VSub(l.end, l.start), VSub(l.end, l.start)))

\* C19: ray_cast(ray, line) returns a distance only when the ray meets the
\* segment at a ray parameter t >= 0 and a fraction u in [0, 1] of the
\* segment; when the ray is parallel to the segment it returns none and
\* does not divide by the cross product of the two directions, which is 0.
C19_RayCastLineOnlyOnHit ==
    (RayDone /\ ray_target.kind = "line") =>
       /\ ray_res.kind = "some" =>
             /\ ray_res.t.kind = "fin"
             /\ RLe(R0, ray_res.t.v)
             /\ OnSegment(RayPoint(ray_res.t.v), ray_target)
       /\ Parallel(ray_target) => (ray_res = RayNone /\ ~ray_div0)

(***************************************************************************)
(* Claims about the shapes step tests against each other, under SpecTable. *)
(***************************************************************************)
\* collision_test passes the pair q on to a test of two shapes.
PassedOn(q) == ~neither_dynamic(d_data[q[1] + 1], d_data[q[2] + 1])

HoldsACircle(q) ==
    \/ d_data[q[1] + 1].shape.kind = "circle"
    \/ d_data[q[2] + 1].shape.kind = "circle"

\* The test of q is collision_box_box, collision_box_line or
\* collision_line_line, each of which is assert_that(false).
FatalDispatch(q) ==
    /\ d_data[q[1] + 1].shape.kind \in {"box", "line"}
    /\ d_data[q[2] + 1].shape.kind \in {"box", "line"}

\* C20: on bodies created through the typed constructors only, in any
\* number and storage order, removals included, every pair that passes the
\* check for a dynamic body holds a circle and goes to a circle-circle,
\* circle-box or circle-line test: step never reaches the box-box,
\* box-line or line-line assertion.
C20_NoFatalShapePairs ==
    st_pc = "contacts" =>
       \A q \in PairsVisited :
          PassedOn(q) => (HoldsACircle(q) /\ ~FatalDispatch(q))

\* C20 witness: phase 2 has run over a box, a line and a ball.
C20_Witness ==
    /\ st_pc = "solve"
    /\ \E k \in 1..Len(d_data) : d_data[k].shape.kind = "box"
    /\ \E k \in 1..Len(d_data) : d_data[k].shape.kind = "line"
    /\ \E k \in 1..Len(d_data) : is_dynamic(d_data[k])

====
